---- MODULE Spec2Model ----
(***************************************************************************)
(* Model of the bridge ledger synchronisation engine of bridge-api:        *)
(* src/workers/bridge_collector.py (BridgeCollector), the worker entry     *)
(* point src/workers/bridge_worker.py, the mirror tables of                *)
(* src/models/bridge.py and the remote ledger behind                       *)
(* src/utils/bridge_rpc_client.py; the orchestrator poller of              *)
(* src/tasks/data_collector.py and src/services/orchestrator_service.py,   *)
(* its cache, and the read API of src/api/v1.                              *)
(***************************************************************************)
EXTENDS Integers, Sequences, FiniteSets, TLC

(***************************************************************************)
(* Bounds of the model.                                                    *)
(***************************************************************************)
MaxWraps == 3
MaxUnwraps == 2
MaxHeight == 2
PageSize == 2
ConfBlocks == 1
RedeemDelay == 1
MaxCrashes == 1
MaxPageRecords == 2
MaxConf == 3
MaxNodes == 2
MaxRounds == 2
MaxFires == 3
MaxQueryNodes == 6
MaxConns == 3
MaxCalls == 4
MaxWall == 3
TicksPerSecond == 2
BurstLimit == 2
MaxTokens == 2
MaxUses == 2
MaxSnapshots == 4
MinOnline == 2
QueueDepth == 1

(***************************************************************************)
(* Program constants.                                                      *)
(***************************************************************************)
PageLimit == 100
MaxInstances == 1
MaxConcurrent == 5
DefaultDecimals == 8
NoneVal == -1

Kinds == {"wrap", "unwrap"}

VARIABLES
    now,            \* remote ledger: current momentum height
    remote,         \* remote ledger: [wrap, unwrap] listings, most recent first
    db,             \* mirror store: [wrap, unwrap] sets of rows
    flag,           \* key-value store: bridge sync complete flag
    pc,             \* position of the worker process
    kind,           \* record kind the worker is working on
    total,          \* _full_sync_*: total
    synced,         \* _full_sync_*: synced
    page,           \* page index of the running loop
    latest_height,  \* _sync_new_*: latest_height
    new_count,      \* _sync_new_*: new_count
    pending,        \* _update_pending_*: pending_ids / pending_keys
    checked,        \* _update_pending_*: checked_ids / checked_keys
    exc,            \* pass in which the last worker step raised, or "none"
    fetches,        \* listing pages fetched by the running pass
    snap,           \* history: the table as the running incremental pass found it
    seen_max,       \* history: highest height the running incremental pass was sent
    crashes,        \* number of times the worker process was killed
    bootDone,       \* history: kinds whose full sync loop has completed
    interrupted,    \* history: a bootstrap was cut short after committing rows
    records,        \* upsert harness: the page of remote records applied
    applied,        \* upsert harness: number of applications done
    before,         \* upsert harness: the store before the first application
    once,           \* upsert harness: the store after the first application
    nodes,          \* relational store: ids of the active orchestrator nodes
    snapshots,      \* relational store: orchestrator snapshot rows
    results,        \* poll round: result of each node query, as gathered
    responses,      \* history: what each node answered in the running round
    ppc,            \* position of the scheduled poll job
    clock,          \* poll rounds started so far; the timestamp of their rows
    summary,        \* poll round: what collect_all_status returned
    cache_error,    \* history: the status cache write of the round raised
    cache,          \* key-value store: the cache entries
    ws_clients,     \* number of connected WebSocket clients
    sent,           \* history: the status the round broadcast, if any
    round_error,    \* history: the poll job logged the round as failed
    reply,          \* the answer to the last API request
    txn,            \* worker: its database session has a transaction open
    sched,          \* API process: the state of the background scheduler
    job_pc,         \* API process: position of the scheduled poll round
    init_pc,        \* API process: position of the poll round run at startup
    fired,          \* API process: times the interval trigger has fired
    task,           \* poll round: position of each node's query_with_limit task
    id_answer,      \* history: how the getIdentity call to each node ended
    issued,         \* history: the calls sent to each node in the round
    all_connections,    \* WebSocketManager: the set of all connections
    active_connections, \* WebSocketManager: user id -> set of connections
    bcast,          \* broadcast_status: its position and local variables
    received,       \* history: connections the running broadcast has reached
    stayed,         \* history: connections registered throughout the broadcast
    stopped_at,     \* history: where a shutdown signal found the worker
    zset,           \* key-value store: the sorted set of a user's rate limit key
    calls,          \* check_rate_limit: position and timestamp of each call
    wall,           \* the wall clock of the API process
    api_tokens,     \* relational store: the rows of api_tokens
    auth            \* history: the outcome of the last token validation

vars == <<now, remote, db, flag, pc, kind, total, synced, page, latest_height,
          new_count, pending, checked, exc, fetches, snap, seen_max, crashes,
          bootDone, interrupted, records, applied, before, once, nodes,
          snapshots, results, responses, ppc, clock, summary, cache_error, cache, ws_clients,
          sent, round_error, reply, txn, sched, job_pc, init_pc, fired, task,
          id_answer, issued, all_connections, active_connections, bcast,
          received, stayed, stopped_at, zset, calls, wall, api_tokens, auth>>

remoteVars == <<now, remote>>
localVars == <<total, synced, page, latest_height, new_count, pending, checked>>
passVars == <<fetches, snap, seen_max>>
histVars == <<crashes, bootDone, interrupted>>
harnessVars == <<records, applied, before, once>>
pollerVars == <<nodes, snapshots, results, responses, ppc, clock, summary, ws_clients, sent,
                round_error>>
cacheVars == <<cache_error, cache>>
serviceVars == <<pollerVars, cacheVars, reply>>
schedVars == <<sched, job_pc, init_pc, fired>>
queryVars == <<task, id_answer, issued>>
wsVars == <<all_connections, active_connections, bcast, received, stayed>>
sigVars == <<stopped_at>>
rateVars == <<zset, calls, wall>>
tokenVars == <<api_tokens, auth>>
apiVars == <<schedVars, queryVars, wsVars, sigVars, rateVars, tokenVars>>

(***************************************************************************)
(* Helpers.                                                                *)
(***************************************************************************)
Max(a, b) == IF a >= b THEN a ELSE b
Min(a, b) == IF a <= b THEN a ELSE b
Range(s) == {s[i] : i \in 1..Len(s)}

\* dict.get(key, default)
Get(r, k, default) == IF k \in DOMAIN r THEN r[k] ELSE default

\* Python truthiness of an Optional[int]: None and 0 are both falsy.
Truthy(v) == v # NoneVal /\ v # 0

\* decimal.Decimal(str) of a string of decimal digits (most significant first)
RECURSIVE Decimal(_)
Decimal(s) ==
    IF s = <<>> THEN 0
    ELSE Decimal(SubSeq(s, 1, Len(s) - 1)) * 10 + s[Len(s)]

(***************************************************************************)
(* The remote ledger.  A listing entry keeps what the ledger stores (for a  *)
(* wrap the height fin at which it is final); the countdown fields are     *)
(* derived from the current momentum height.                               *)
(***************************************************************************)
TxHashOf(i) == (i + 1) \div 2
LogIndexOf(i) == (i + 1) % 2

\* a wrap record as the ledger reports it at momentum height t
WrapJsonOf(id, h, conf, sig, amt) ==
    [id |-> id,
     networkClass |-> 2,
     chainId |-> 1,
     toAddress |-> id,
     tokenStandard |-> "zts1",
     tokenAddress |-> "0xa",
     token |-> IF id % 2 = 1 THEN [symbol |-> "ZNN", decimals |-> 8]
                             ELSE [decimals |-> 6],
     amount |-> amt,
     fee |-> <<id>>,
     signature |-> sig,
     creationMomentumHeight |-> h,
     confirmationsToFinality |-> conf]

WrapJsonAt(e, t) ==
    WrapJsonOf(e.id, e.h, Max(0, e.fin - t), e.id, <<0, e.id>>)

\* an unwrap record as the ledger reports it at momentum height t
UnwrapJsonOf(tx, log, h, red, rev, rin, sig, amt) ==
    [transactionHash |-> tx,
     logIndex |-> log,
     registrationMomentumHeight |-> h,
     networkClass |-> 2,
     chainId |-> 1,
     toAddress |-> tx,
     tokenAddress |-> "0xa",
     tokenStandard |-> "zts1",
     token |-> IF log = 0 THEN [symbol |-> "QSR", decimals |-> 8] ELSE <<>>,
     amount |-> amt,
     signature |-> sig,
     redeemed |-> red,
     revoked |-> rev,
     redeemableIn |-> rin]

UnwrapJsonAt(e, t) ==
    UnwrapJsonOf(TxHashOf(e.id), LogIndexOf(e.id), e.h,
                 IF e.st = "redeemed" THEN 1 ELSE 0,
                 IF e.st = "revoked" THEN 1 ELSE 0,
                 Max(0, e.h + RedeemDelay - t), e.id, <<e.id, 0>>)

RemoteJsonAt(k, e, t) == IF k = "wrap" THEN WrapJsonAt(e, t) ELSE UnwrapJsonAt(e, t)

RemoteJson(k, e) == RemoteJsonAt(k, e, now)

\* embedded.bridge.getAll{Wrap,Unwrap}TokenRequests(page_index, page_size)
GetAllRequests(k, page_index, page_size) ==
    LET lst == remote[k]
        lo == page_index * page_size + 1
        hi == Min(Len(lst), (page_index + 1) * page_size)
    IN [count |-> Len(lst),
        list |-> [i \in 1..Max(0, hi - lo + 1) |-> RemoteJson(k, lst[lo + i - 1])]]

\* variant: the count is taken from the length of the fetched list
GetCountOfList(k) == Len(Get(GetAllRequests(k, 0, 1), "list", <<>>))

\* get_wrap_count / get_unwrap_count: a size-1 fetch of page 0
GetCount(k) == Get(GetAllRequests(k, 0, 1), "count", 0)

(***************************************************************************)
(* The mirror store: rows and the conflict-resolving upserts.              *)
(***************************************************************************)
WrapValues(r) ==
    LET token == Get(r, "token", <<>>)
    IN [request_id |-> r.id,
        network_class |-> r.networkClass,
        chain_id |-> r.chainId,
        to_address |-> r.toAddress,
        token_standard |-> r.tokenStandard,
        token_address |-> r.tokenAddress,
        token_symbol |-> Get(token, "symbol", "UNKNOWN"),
        token_decimals |-> Get(token, "decimals", DefaultDecimals),
        amount |-> Decimal(r.amount),
        fee |-> Decimal(r.fee),
        signature |-> r.signature,
        creation_momentum_height |-> r.creationMomentumHeight,
        confirmations_to_finality |-> r.confirmationsToFinality]

UnwrapValues(r) ==
    LET token == Get(r, "token", <<>>)
    IN [transaction_hash |-> r.transactionHash,
        log_index |-> r.logIndex,
        registration_momentum_height |-> r.registrationMomentumHeight,
        network_class |-> r.networkClass,
        chain_id |-> r.chainId,
        to_address |-> r.toAddress,
        token_address |-> r.tokenAddress,
        token_standard |-> r.tokenStandard,
        token_symbol |-> Get(token, "symbol", "UNKNOWN"),
        token_decimals |-> Get(token, "decimals", DefaultDecimals),
        amount |-> Decimal(r.amount),
        signature |-> r.signature,
        redeemed |-> (r.redeemed = 1),
        revoked |-> (r.revoked = 1),
        redeemable_in |-> r.redeemableIn]

\* the columns of the unique index each ON CONFLICT clause names
WrapKey(row) == row.request_id
UnwrapKey(row) == <<row.transaction_hash, row.log_index>>
RowKey(k, row) == IF k = "wrap" THEN WrapKey(row) ELSE UnwrapKey(row)

\* the natural key as read from a remote record
JsonKey(k, r) == IF k = "wrap" THEN r.id ELSE <<r.transactionHash, r.logIndex>>

\* variant: the SET clause takes the excluded height instead of the countdown
WrapConflictSetHeight(row, excluded) ==
    [row EXCEPT !.confirmations_to_finality = excluded.creation_momentum_height]

\* variant: the SET clause adds the excluded countdown to the stored one
WrapConflictSetSum(row, excluded) ==
    [row EXCEPT !.confirmations_to_finality = @ + excluded.confirmations_to_finality]

\* variant: ON CONFLICT DO NOTHING
WrapConflictSetNothing(row, excluded) == row

\* ON CONFLICT DO UPDATE SET ...: the stored row with the excluded values
WrapConflictSet(row, excluded) ==
    [row EXCEPT !.confirmations_to_finality = excluded.confirmations_to_finality]

\* variant: the SET clause takes the excluded height instead of the countdown
UnwrapConflictSetHeight(row, excluded) ==
    [row EXCEPT !.redeemed = excluded.redeemed,
                !.revoked = excluded.revoked,
                !.redeemable_in = excluded.registration_momentum_height]

UnwrapConflictSet(row, excluded) ==
    [row EXCEPT !.redeemed = excluded.redeemed,
                !.revoked = excluded.revoked,
                !.redeemable_in = excluded.redeemable_in]

Values(k, recs) ==
    [i \in 1..Len(recs) |-> IF k = "wrap" THEN WrapValues(recs[i])
                                          ELSE UnwrapValues(recs[i])]

\* variant: the SET clause names every column of the VALUES entry
ConflictSetAll(k, row, excluded) ==
    [f \in DOMAIN row |-> IF f \in DOMAIN excluded THEN excluded[f] ELSE row[f]]

ConflictSet(k, row, excluded) ==
    IF k = "wrap" THEN WrapConflictSet(row, excluded)
                  ELSE UnwrapConflictSet(row, excluded)

\* One INSERT ... ON CONFLICT DO UPDATE statement may not touch a row twice:
\* the database rejects a VALUES list that names one key more than once.
CardinalityViolation(k, recs) ==
    LET values == Values(k, recs)
    IN \E i, j \in 1..Len(values) :
          i # j /\ RowKey(k, values[i]) = RowKey(k, values[j])

\* id: BigInteger primary key, autoincrement: larger than every id in the table
MaxId(table) ==
    IF table = {} THEN 0
    ELSE CHOOSE n \in {row.id : row \in table} : \A row \in table : row.id <= n

\* the row an INSERT stores for a VALUES entry
WithId(v, n) == [f \in DOMAIN v \cup {"id"} |-> IF f = "id" THEN n ELSE v[f]]

\* variant: a plain INSERT on a table without the unique index
UpsertInsertOnly(k, table, recs) ==
    IF recs = <<>> THEN table
    ELSE LET values == Values(k, recs)
         IN table \cup {WithId(values[i], MaxId(table) + i) : i \in 1..Len(values)}

\* _upsert_wrap_requests / _upsert_unwrap_requests on a statement that succeeds
Upsert(k, table, recs) ==
    IF recs = <<>> THEN table
    ELSE LET values == Values(k, recs)
             Hit(row) == {i \in 1..Len(values) : RowKey(k, values[i]) = RowKey(k, row)}
             fresh == {i \in 1..Len(values) :
                         \A row \in table : RowKey(k, row) # RowKey(k, values[i])}
             IdOf(i) == MaxId(table) + Cardinality({j \in fresh : j <= i})
         IN {IF Hit(row) = {} THEN row
                              ELSE ConflictSet(k, row, values[CHOOSE i \in Hit(row) : TRUE])
               : row \in table}
            \cup {WithId(values[i], IdOf(i)) : i \in fresh}

\* select(func.count()).select_from(...)
DbCount(k) == Cardinality(db[k])

HeightOf(k, row) ==
    IF k = "wrap" THEN row.creation_momentum_height
                  ELSE row.registration_momentum_height

\* select(func.max(height)): None on an empty table
MaxHeightOf(table, k) ==
    IF table = {} THEN NoneVal
    ELSE CHOOSE h \in {HeightOf(k, row) : row \in table} :
            \A row \in table : HeightOf(k, row) <= h

LatestHeight(k) == MaxHeightOf(db[k], k)

\* the pending natural keys of a table
PendingKeys(k) ==
    IF k = "wrap"
    THEN {row.request_id : row \in {w \in db.wrap : w.confirmations_to_finality > 0}}
    ELSE {<<row.transaction_hash, row.log_index>> :
            row \in {u \in db.unwrap : u.redeemed = FALSE /\ u.revoked = FALSE}}

(***************************************************************************)
(* Remote ledger steps.  Records are appended at the current momentum      *)
(* height and listed most recent first; countdowns only run down; the      *)
(* redeemed and revoked marks are set once.                                *)
(***************************************************************************)
workerVars == <<db, flag, pc, kind, localVars, exc, passVars, histVars, harnessVars, txn>>

RemoteMomentum ==
    /\ now < MaxHeight
    /\ now' = now + 1
    /\ UNCHANGED <<remote, workerVars, serviceVars, apiVars>>

RemoteAddWrap ==
    /\ Len(remote.wrap) < MaxWraps
    /\ remote' = [remote EXCEPT
                    !.wrap = <<[id |-> Len(@) + 1, h |-> now,
                               fin |-> now + ConfBlocks]>> \o @]
    /\ UNCHANGED <<now, workerVars, serviceVars, apiVars>>

RemoteAddUnwrap ==
    /\ Len(remote.unwrap) < MaxUnwraps
    /\ remote' = [remote EXCEPT
                    !.unwrap = <<[id |-> Len(@) + 1, h |-> now, st |-> "open"]>> \o @]
    /\ UNCHANGED <<now, workerVars, serviceVars, apiVars>>

RemoteRedeem ==
    /\ \E i \in 1..Len(remote.unwrap) :
          /\ remote.unwrap[i].st = "open"
          /\ remote.unwrap[i].h + RedeemDelay <= now
          /\ remote' = [remote EXCEPT !.unwrap[i].st = "redeemed"]
    /\ UNCHANGED <<now, workerVars, serviceVars, apiVars>>

RemoteRevoke ==
    /\ \E i \in 1..Len(remote.unwrap) :
          /\ remote.unwrap[i].st = "open"
          /\ remote' = [remote EXCEPT !.unwrap[i].st = "revoked"]
    /\ UNCHANGED <<now, workerVars, serviceVars, apiVars>>

\* the ledger registers a request of the kind being bootstrapped while the
\* full sync is paging; at most one page of them since the count was read
RemotePrepend ==
    /\ pc = "full_page"
    /\ Len(remote[kind]) < total + PageSize
    /\ remote' = [remote EXCEPT
                    ![kind] = <<IF kind = "wrap"
                                THEN [id |-> Len(@) + 1, h |-> now,
                                      fin |-> now + ConfBlocks]
                                ELSE [id |-> Len(@) + 1, h |-> now,
                                      st |-> "open"]>> \o @]
    /\ UNCHANGED <<now, workerVars, serviceVars, apiVars>>

(***************************************************************************)
(* The worker process: BridgeCollector.run under bridge_worker.main.       *)
(***************************************************************************)
ResetLocals ==
    /\ total' = 0
    /\ synced' = 0
    /\ page' = 0
    /\ latest_height' = NoneVal
    /\ new_count' = 0
    /\ pending' = {}
    /\ checked' = {}

ResetPass ==
    /\ fetches' = 0
    /\ snap' = {}
    /\ seen_max' = 0

OtherKind(k) == IF k = "wrap" THEN "unwrap" ELSE "wrap"

\* a bootstrap is cut short after it has committed rows
NoteInterrupted ==
    interrupted' =
        IF pc \in {"full_count", "full_page"} /\ db.wrap \cup db.unwrap # {}
        THEN TRUE
        ELSE interrupted

\* variant: the full sync runs when either table is empty
NeedsFullSyncEither(wrap_count, unwrap_count) == wrap_count = 0 \/ unwrap_count = 0

\* if wrap_count == 0 and unwrap_count == 0
NeedsFullSync(wrap_count, unwrap_count) == wrap_count = 0 /\ unwrap_count = 0

\* run(): _init_redis, then initial_sync up to its branch on the two counts
initial_sync ==
    /\ pc = "start"
    /\ IF NeedsFullSync(DbCount("wrap"), DbCount("unwrap"))
       THEN pc' = "full_count"
       ELSE pc' = "set_flag"
    /\ kind' = "wrap"
    /\ exc' = "none"
    /\ ResetPass
    /\ UNCHANGED <<remoteVars, db, flag, localVars, histVars, harnessVars, serviceVars, apiVars>>
    /\ txn' = TRUE

\* _full_sync_*: total = await self.rpc_client.get_*_count()
full_sync_count ==
    /\ pc = "full_count"
    /\ total' = GetCount(kind)
    /\ page' = 0
    /\ synced' = 0
    /\ ResetPass
    /\ pc' = "full_page"
    /\ exc' = "none"
    /\ UNCHANGED <<remoteVars, db, flag, kind, latest_height, new_count, pending,
                   checked, histVars, harnessVars, serviceVars, apiVars>>
    /\ UNCHANGED txn

\* where a finished full sync of a kind hands over
FullSyncNextPc(k) == IF k = "wrap" THEN "full_count" ELSE "set_flag"

FullSyncExit ==
    /\ bootDone' = bootDone \cup {kind}
    /\ pc' = FullSyncNextPc(kind)
    /\ kind' = OtherKind(kind)
    /\ ResetLocals
    /\ UNCHANGED <<crashes, interrupted>>

\* variant: the loop goes on while synced <= total
FullSyncContinueEq(s, t) == s <= t

\* while synced < total
FullSyncContinue(s, t) == s < t

\* one iteration of the while synced < total loop of _full_sync_*
full_sync_page ==
    /\ pc = "full_page"
    /\ FullSyncContinue(synced, total)
    /\ LET result == GetAllRequests(kind, page, PageSize)
           recs == Get(result, "list", <<>>)
       IN /\ fetches' = fetches + 1
          /\ exc' = "none"
          /\ IF recs = <<>>
             THEN /\ FullSyncExit
                  /\ UNCHANGED db
             ELSE /\ ~CardinalityViolation(kind, recs)
                  /\ db' = [db EXCEPT ![kind] = Upsert(kind, @, recs)]
                  /\ synced' = synced + Len(recs)
                  /\ page' = page + 1
                  /\ UNCHANGED <<pc, kind, total, latest_height, new_count,
                                 pending, checked, histVars>>
    /\ UNCHANGED <<remoteVars, flag, snap, seen_max, harnessVars, serviceVars, apiVars>>
    /\ txn' = IF Get(GetAllRequests(kind, page, PageSize), "list", <<>>) = <<>> THEN txn ELSE FALSE

\* the loop condition of _full_sync_* fails
full_sync_done ==
    /\ pc = "full_page"
    /\ ~FullSyncContinue(synced, total)
    /\ FullSyncExit
    /\ exc' = "none"
    /\ UNCHANGED <<remoteVars, db, flag, passVars, harnessVars, serviceVars, apiVars>>
    /\ UNCHANGED txn

\* what bridge_worker.main does with an exception that leaves run()
BootstrapOnError == "exited"

\* a count fetch, page fetch or upsert of the full sync raises: logged, re-raised
full_sync_error ==
    /\ pc \in {"full_count", "full_page"}
    /\ pc = "full_page" => synced < total
    /\ pc' = BootstrapOnError
    /\ exc' = "bootstrap"
    /\ NoteInterrupted
    /\ ResetLocals
    /\ UNCHANGED <<remoteVars, db, flag, kind, passVars, crashes, bootDone,
                   harnessVars, serviceVars, apiVars>>
    /\ txn' = FALSE

\* _set_sync_complete
set_sync_complete ==
    /\ pc = "set_flag"
    /\ flag' = TRUE
    /\ pc' = "sleep"
    /\ exc' = "none"
    /\ ResetPass
    /\ UNCHANGED <<remoteVars, db, kind, localVars, histVars, harnessVars, serviceVars, apiVars>>
    /\ txn' = FALSE

\* asyncio.sleep(bridge_poll_interval) returns and collect_new_data opens its
\* session
\* variant: the interval elapses whatever the previous tick is doing
SleepOverAnytime(p) == p \in {"sleep", "incr_page", "pend_start", "pend_page"}

\* await asyncio.sleep(...) in the loop of run(): the loop sleeps only after
\* collect_new_data has returned
SleepOver(p) == p = "sleep"

WakeUp ==
    /\ SleepOver(pc)
    /\ pc' = "incr_start"
    /\ kind' = "wrap"
    /\ exc' = "none"
    /\ ResetPass
    /\ UNCHANGED <<db, flag, localVars, histVars, harnessVars, serviceVars, apiVars>>
    /\ txn' = FALSE

collect_new_data ==
    /\ WakeUp
    /\ UNCHANGED remoteVars

\* the same after a sleep during which the ledger produced one momentum
collect_after_momentum ==
    /\ now <= MaxConf + 1
    /\ WakeUp
    /\ now' = now + 1
    /\ UNCHANGED remote

\* _sync_new_*: latest_height, page, new_count
sync_new_start ==
    /\ pc = "incr_start"
    /\ latest_height' = LatestHeight(kind)
    /\ page' = 0
    /\ new_count' = 0
    /\ fetches' = 0
    /\ snap' = db[kind]
    /\ seen_max' = 0
    /\ pc' = "incr_page"
    /\ exc' = "none"
    /\ UNCHANGED <<remoteVars, db, flag, kind, total, synced, pending, checked,
                   histVars, harnessVars, serviceVars, apiVars>>
    /\ txn' = TRUE

\* variant: the filter keeps records at the cursor too
IsNewOrEqual(k, r, cursor) ==
    IF k = "wrap" THEN Get(r, "creationMomentumHeight", 0) >= cursor
                  ELSE Get(r, "registrationMomentumHeight", 0) >= cursor

\* the filter of _sync_new_*: records above the cursor
IsNew(k, r, cursor) ==
    IF k = "wrap" THEN Get(r, "creationMomentumHeight", 0) > cursor
                  ELSE Get(r, "registrationMomentumHeight", 0) > cursor

NewRecords(k, recs, cursor) ==
    IF Truthy(cursor)
    THEN LET Keep(r) == IsNew(k, r, cursor) IN SelectSeq(recs, Keep)
    ELSE recs

\* variant: the stop test never fires
HitExistingNever(new_records, recs) == FALSE

\* variant: the stop test also fires on a page of new records only
HitExistingOrFull(new_records, recs) == Len(new_records) <= Len(recs)

\* the stop test of _sync_new_*: the page held a record that is not new
HitExisting(new_records, recs) == Len(new_records) < Len(recs)

\* variant: the except clause of _sync_new_* abandons the tick
IncrOnErrorSkip == "sleep"

\* variant: the except clause of _sync_new_* re-raises
IncrOnErrorRaise == "exited"

\* where the except clause of _sync_new_* continues
IncrOnError == "pend_start"

\* the height a remote record carries
JsonHeight(k, r) ==
    IF k = "wrap" THEN r.creationMomentumHeight ELSE r.registrationMomentumHeight

RECURSIVE MaxSeen(_, _, _)
MaxSeen(k, recs, m) ==
    IF recs = <<>> THEN m
    ELSE MaxSeen(k, Tail(recs), Max(m, JsonHeight(k, Head(recs))))

\* one iteration of the while True loop of _sync_new_*
sync_new_page ==
    /\ pc = "incr_page"
    /\ LET result == GetAllRequests(kind, page, PageSize)
           recs == Get(result, "list", <<>>)
           new_records == NewRecords(kind, recs, latest_height)
       IN /\ fetches' = fetches + 1
          /\ seen_max' = MaxSeen(kind, recs, seen_max)
          /\ exc' = "none"
          /\ IF recs = <<>>
             THEN /\ pc' = "pend_start"
                  /\ UNCHANGED <<db, new_count, page>>
             ELSE /\ ~CardinalityViolation(kind, new_records)
                  /\ db' = [db EXCEPT ![kind] = Upsert(kind, @, new_records)]
                  /\ new_count' = new_count + Len(new_records)
                  /\ IF HitExisting(new_records, recs)
                     THEN pc' = "pend_start" /\ UNCHANGED page
                     ELSE page' = page + 1 /\ UNCHANGED pc
    /\ UNCHANGED <<remoteVars, flag, kind, total, synced, latest_height, pending,
                   checked, snap, histVars, harnessVars, serviceVars, apiVars>>
    /\ txn' = IF NewRecords(kind, Get(GetAllRequests(kind, page, PageSize), "list", <<>>), latest_height) = <<>> THEN txn ELSE FALSE

\* a page fetch or upsert of _sync_new_* raises: logged, break
sync_new_error ==
    /\ pc = "incr_page"
    /\ pc' = IncrOnError
    /\ exc' = "incr"
    /\ UNCHANGED <<remoteVars, db, flag, kind, localVars, passVars, histVars,
                   harnessVars, serviceVars, apiVars>>
    /\ UNCHANGED txn

\* where a finished pending refresh of a kind hands over
PendingNextPc(k) == IF k = "wrap" THEN "incr_start" ELSE "sleep"

PendingExit ==
    /\ pc' = PendingNextPc(kind)
    /\ kind' = OtherKind(kind)
    /\ ResetLocals

\* _update_pending_*: the pending query and the early return
update_pending_start ==
    /\ pc = "pend_start"
    /\ exc' = "none"
    /\ ResetPass
    /\ IF PendingKeys(kind) = {}
       THEN PendingExit
       ELSE /\ pending' = PendingKeys(kind)
            /\ page' = 0
            /\ checked' = {}
            /\ total' = 0
            /\ synced' = 0
            /\ latest_height' = NoneVal
            /\ new_count' = 0
            /\ pc' = "pend_page"
            /\ UNCHANGED kind
    /\ UNCHANGED <<remoteVars, db, flag, histVars, harnessVars, serviceVars, apiVars>>
    /\ txn' = IF PendingKeys(kind) = {} /\ kind = "unwrap" THEN FALSE ELSE TRUE

\* variant: the pending refresh upserts every record of the page
PendingRecordsAll(k, recs, keys) == recs

\* the filter of _update_pending_*: records whose key is pending
PendingRecords(k, recs, keys) ==
    LET Keep(r) == JsonKey(k, r) \in keys IN SelectSeq(recs, Keep)

\* variant: the loop goes on while checked <= pending
SubsetOrEqual(a, b) == a \subseteq b

\* while checked < pending: Python's proper-subset test
ProperSubset(a, b) == a \subseteq b /\ a # b

\* where the except clause of _update_pending_* continues
PendingOnError(k) == PendingNextPc(k)

\* variant: the safety limit lets one more page through
OverLimitLate(p) == p > PageLimit + 1

\* if page > 100: the safety limit, tested after page += 1
OverLimit(p) == p > PageLimit

\* one iteration of the while loop of _update_pending_*
update_pending_page ==
    /\ pc = "pend_page"
    /\ ProperSubset(checked, pending)
    /\ LET result == GetAllRequests(kind, page, PageSize)
           recs == Get(result, "list", <<>>)
           pending_records == PendingRecords(kind, recs, pending)
       IN /\ fetches' = fetches + 1
          /\ exc' = "none"
          /\ IF recs = <<>>
             THEN /\ PendingExit
                  /\ UNCHANGED db
             ELSE /\ ~CardinalityViolation(kind, pending_records)
                  /\ db' = [db EXCEPT ![kind] = Upsert(kind, @, pending_records)]
                  /\ IF OverLimit(page + 1)
                     THEN PendingExit
                     ELSE /\ checked' = checked \cup
                                {JsonKey(kind, pending_records[i]) :
                                    i \in 1..Len(pending_records)}
                          /\ page' = page + 1
                          /\ UNCHANGED <<pc, kind, total, synced, latest_height,
                                         new_count, pending>>
    /\ UNCHANGED <<remoteVars, flag, snap, seen_max, histVars, harnessVars, serviceVars, apiVars>>
    /\ txn' = IF \/ pc' # "pend_page" /\ kind = "unwrap"
               \/ PendingRecords(kind, Get(GetAllRequests(kind, page, PageSize), "list", <<>>), pending) # <<>>
            THEN FALSE ELSE txn

\* the loop condition of _update_pending_* fails
update_pending_done ==
    /\ pc = "pend_page"
    /\ ~ProperSubset(checked, pending)
    /\ PendingExit
    /\ exc' = "none"
    /\ UNCHANGED <<remoteVars, db, flag, passVars, histVars, harnessVars, serviceVars, apiVars>>
    /\ txn' = IF kind = "unwrap" THEN FALSE ELSE txn

\* a page fetch or upsert of _update_pending_* raises: logged, break
update_pending_error ==
    /\ pc = "pend_page"
    /\ ProperSubset(checked, pending)
    /\ pc' = PendingOnError(kind)
    /\ kind' = OtherKind(kind)
    /\ ResetLocals
    /\ exc' = "pending"
    /\ UNCHANGED <<remoteVars, db, flag, passVars, histVars, harnessVars, serviceVars, apiVars>>
    /\ txn' = IF kind = "unwrap" THEN FALSE ELSE txn

\* the worker process is killed
Crash ==
    /\ pc \in {"start", "full_count", "full_page", "set_flag", "sleep",
               "incr_start", "incr_page", "pend_start", "pend_page"}
    /\ crashes < MaxCrashes
    /\ crashes' = crashes + 1
    /\ pc' = "crashed"
    /\ kind' = "wrap"
    /\ exc' = "none"
    /\ NoteInterrupted
    /\ ResetLocals
    /\ ResetPass
    /\ UNCHANGED <<remoteVars, db, flag, bootDone, harnessVars, serviceVars, apiVars>>
    /\ txn' = FALSE

\* variant: a starting worker deletes the readiness key
RestartClearingFlag ==
    /\ pc \in {"crashed", "exited"}
    /\ pc' = "start"
    /\ kind' = "wrap"
    /\ exc' = "none"
    /\ flag' = FALSE
    /\ ResetPass
    /\ UNCHANGED <<remoteVars, db, localVars, histVars, harnessVars, serviceVars, apiVars>>
    /\ txn' = FALSE

\* the worker process is started again: python -m src.workers.bridge_worker
Restart ==
    /\ pc \in {"crashed", "exited"}
    /\ pc' = "start"
    /\ kind' = "wrap"
    /\ exc' = "none"
    /\ ResetPass
    /\ UNCHANGED <<remoteVars, db, flag, localVars, histVars, harnessVars, serviceVars, apiVars>>
    /\ txn' = FALSE

(***************************************************************************)
(* The upsert harness: one page of records applied to a table twice.       *)
(***************************************************************************)
apply_upsert ==
    /\ pc = "idle"
    /\ applied < 2
    /\ ~CardinalityViolation(kind, records)
    /\ db' = [db EXCEPT ![kind] = Upsert(kind, @, records)]
    /\ applied' = applied + 1
    /\ before' = IF applied = 0 THEN db[kind] ELSE before
    /\ once' = IF applied = 0 THEN db'[kind] ELSE once
    /\ exc' = "none"
    /\ UNCHANGED <<remoteVars, flag, pc, kind, localVars, passVars, histVars, records, serviceVars, apiVars>>
    /\ txn' = FALSE

\* the statement is rejected and nothing is committed
apply_upsert_error ==
    /\ pc = "idle"
    /\ applied < 2
    /\ CardinalityViolation(kind, records)
    /\ applied' = applied + 1
    /\ before' = IF applied = 0 THEN db[kind] ELSE before
    /\ once' = IF applied = 0 THEN db[kind] ELSE once
    /\ exc' = "upsert"
    /\ UNCHANGED <<remoteVars, db, flag, pc, kind, localVars, passVars, histVars,
                   records, serviceVars, apiVars>>
    /\ UNCHANGED txn

(***************************************************************************)
(* The orchestrator poller: src/tasks/data_collector.py,                   *)
(* src/services/orchestrator_service.py, src/utils/rpc_client.py and the   *)
(* cache of src/services/cache_service.py.                                 *)
(***************************************************************************)
ONLINE_STATES == {0, 1}
Networks == <<"bnb", "eth", "supernova">>
NoText == "None"

\* what a node answers to getIdentity and getStatus, or how the calls fail
Responses ==
    [type : {"ok"}, state : {0, 2}, depth : {QueueDepth}]
        \cup [type : {"rpc_error", "network_error", "http_error"}]

_process_network_stats(resp) ==
    [i \in 1..Len(Networks) |->
        [network |-> Networks[i], wraps_count |-> resp.depth,
         unwraps_count |-> resp.depth]]

_process_response(resp, t) ==
    [type |-> "result", state |-> resp.state,
     is_online |-> resp.state \in ONLINE_STATES, error_message |-> NoText,
     network_stats |-> _process_network_stats(resp), timestamp |-> t]

\* an error response that carries the queue depths the node last reported
ErrorResponseKeepingDepths(error, t) ==
    [type |-> "result", state |-> NoneVal, is_online |-> FALSE,
     error_message |-> error,
     network_stats |-> [i \in 1..Len(Networks) |->
                          [network |-> Networks[i], wraps_count |-> QueueDepth,
                           unwraps_count |-> QueueDepth]],
     timestamp |-> t]

_create_error_response(error, t) ==
    [type |-> "result", state |-> NoneVal, is_online |-> FALSE,
     error_message |-> error,
     network_stats |-> [i \in 1..Len(Networks) |->
                          [network |-> Networks[i], wraps_count |-> 0,
                           unwraps_count |-> 0]],
     timestamp |-> t]

QueryResult(resp, t) ==
    CASE resp.type = "ok" -> _process_response(resp, t)
      [] resp.type = "rpc_error" -> _create_error_response("rpc error", t)
      [] resp.type = "network_error" ->
            _create_error_response("Network error: timed out", t)
      [] OTHER -> _create_error_response("Error: bad status", t)

Pending == [type |-> "pending"]

\* rows of orchestrator_snapshots with their network_stats rows
NodeRank(n) == Cardinality({m \in nodes : m <= n})

SnapshotOf(n, result) ==
    IF result.type = "exception"
    THEN [id |-> Cardinality(snapshots) + NodeRank(n), node_id |-> n,
          timestamp |-> clock, state |-> NoneVal, is_online |-> FALSE,
          error_message |-> result.text, network_stats |-> <<>>]
    ELSE [id |-> Cardinality(snapshots) + NodeRank(n), node_id |-> n,
          timestamp |-> result.timestamp, state |-> result.state,
          is_online |-> result.is_online,
          error_message |-> result.error_message,
          network_stats |-> result.network_stats]

LatestSnapshots(n) ==
    {r \in snapshots :
        /\ r.node_id = n
        /\ \A q \in snapshots : q.node_id = n => q.timestamp <= r.timestamp}

OrchestratorEntry(n) ==
    IF LatestSnapshots(n) # {}
    THEN LET snapshot == CHOOSE r \in LatestSnapshots(n) : TRUE
         IN [node_id |-> n, state |-> snapshot.state,
             is_online |-> snapshot.is_online,
             error_message |-> snapshot.error_message,
             network_stats |-> snapshot.network_stats,
             last_checked |-> snapshot.timestamp]
    ELSE [node_id |-> n, state |-> NoneVal, is_online |-> FALSE,
          error_message |-> "No data collected yet", network_stats |-> <<>>,
          last_checked |-> NoneVal]

\* "online" only when more than the minimum is online
BridgeStatusStrict(online_count) ==
    IF online_count > MinOnline THEN "online" ELSE "offline"

BridgeStatusOf(online_count) ==
    IF online_count >= MinOnline THEN "online" ELSE "offline"

_build_current_status ==
    LET orchestrators == [n \in nodes |-> OrchestratorEntry(n)]
        online_count == Cardinality({n \in nodes : orchestrators[n].is_online})
    IN [timestamp |-> clock, bridge_status |-> BridgeStatusOf(online_count),
        online_count |-> online_count, total_count |-> Cardinality(nodes),
        min_required |-> MinOnline, orchestrators |-> orchestrators]

\* the scheduler fires collect_orchestrator_data; collect_all_status reads
\* the active nodes and starts one query per node
collect_orchestrator_data ==
    /\ ppc = "idle"
    /\ clock < MaxRounds
    /\ snapshots = {} \/ Cardinality(snapshots) + Cardinality(nodes) <= MaxSnapshots
    /\ clock' = clock + 1
    /\ IF nodes = {}
       THEN /\ summary' = <<[collected |-> 0, online |-> 0, total |-> 0]>>
            /\ ppc' = "broadcast"
            /\ UNCHANGED <<results, responses, queryVars>>
       ELSE /\ results' = [n \in nodes |-> Pending]
            /\ responses' = [n \in nodes |-> Pending]
            /\ task' = [n \in nodes |-> "waiting"]
            /\ id_answer' = [n \in nodes |-> "none"]
            /\ issued' = [n \in nodes |-> <<>>]
            /\ summary' = <<>>
            /\ ppc' = "gather"
    /\ sent' = <<>>
    /\ round_error' = FALSE
    /\ cache_error' = FALSE
    /\ UNCHANGED <<remoteVars, workerVars, nodes, snapshots, ws_clients, cache,
                   reply, schedVars, wsVars, sigVars, rateVars, tokenVars>>

query_orchestrator ==
    /\ ppc = "gather"
    /\ \E n \in nodes, resp \in Responses :
          /\ results[n] = Pending
          /\ results' = [results EXCEPT ![n] = QueryResult(resp, clock)]
          /\ responses' = [responses EXCEPT ![n] = resp]
    /\ UNCHANGED <<remoteVars, workerVars, nodes, snapshots, ppc, clock, summary,
                   ws_clients, sent, round_error, cacheVars, reply, apiVars>>

\* the loop over zip(nodes, results) and the commit
collect_all_status ==
    /\ ppc = "gather"
    /\ \A n \in nodes : results[n] # Pending
    /\ snapshots' = snapshots \cup {SnapshotOf(n, results[n]) : n \in nodes}
    /\ ppc' = "update_cache"
    /\ UNCHANGED <<remoteVars, workerVars, nodes, results, responses, clock,
                   summary, ws_clients, sent, round_error, cacheVars, reply, apiVars>>

\* _update_status_cache and the rest of collect_all_status; the key-value
\* store answers the write or raises, and what it raises leaves through
\* collect_all_status to the handler of collect_orchestrator_data
_update_status_cache ==
    /\ ppc = "update_cache"
    /\ \E up \in BOOLEAN :
          IF up
          THEN /\ cache' = [cache EXCEPT !.status = <<_build_current_status>>]
               /\ summary' = <<[collected |-> Cardinality(nodes),
                                online |-> Cardinality({n \in nodes :
                                                          results[n].is_online}),
                                total |-> Cardinality(nodes)]>>
               /\ ppc' = "broadcast"
               /\ UNCHANGED <<round_error, cache_error>>
          ELSE /\ round_error' = TRUE
               /\ cache_error' = TRUE
               /\ ppc' = "idle"
               /\ UNCHANGED <<cache, summary>>
    /\ UNCHANGED <<remoteVars, workerVars, nodes, snapshots, results, responses,
                   clock, ws_clients, sent, reply, apiVars>>

\* get_current_status as the poll job and the status endpoints call it, once
\* the key-value store has answered the read
get_current_status == IF cache.status # <<>> THEN cache.status[1]
                      ELSE _build_current_status

\* the broadcast to the WebSocket clients that ends the poll job
broadcast_status ==
    /\ ppc = "broadcast"
    /\ ppc' = "idle"
    /\ IF ws_clients > 0
       THEN \E up \in BOOLEAN :
               IF up
               THEN /\ sent' = <<get_current_status>>
                    /\ UNCHANGED round_error
               ELSE /\ round_error' = TRUE
                    /\ UNCHANGED sent
       ELSE UNCHANGED <<sent, round_error>>
    /\ UNCHANGED <<remoteVars, workerVars, nodes, snapshots, results, responses,
                   clock, summary, ws_clients, cacheVars, reply, apiVars>>

\* an entry of the cache outlives its TTL
cache_expire ==
    /\ \E key \in DOMAIN cache :
          /\ cache[key] # <<>>
          /\ cache' = [cache EXCEPT ![key] = <<>>]
    /\ UNCHANGED <<remoteVars, workerVars, pollerVars, cache_error, reply, apiVars>>

\* GET /orchestrators/status; an error of the key-value store is not caught
\* and the request is answered 500
get_bridge_status ==
    /\ \E up \in BOOLEAN :
          reply' = IF up
                   THEN [endpoint |-> "status", code |-> 200, headers |-> {},
                         body |-> <<get_current_status>>]
                   ELSE [endpoint |-> "status", code |-> 500, headers |-> {},
                         body |-> <<>>]
    /\ UNCHANGED <<remoteVars, workerVars, pollerVars, cacheVars, apiVars>>

\* the bridge health history over a period of one interval that holds every
\* snapshot taken so far
BridgeHealthResponse ==
    LET online_count ==
            Cardinality({r.node_id : r \in {q \in snapshots : q.is_online}})
    IN [period_end |-> clock,
        data_points |-> <<[online_count |-> online_count,
                           total_count |-> Cardinality(nodes),
                           is_bridge_online |-> online_count >= MinOnline]>>,
        avg_online_count |-> online_count,
        min_online_count |-> online_count,
        max_online_count |-> online_count]

\* GET /statistics/bridge: the cached entry if there is one, else the history
\* computed from the snapshots and cached
get_bridge_health_history ==
    /\ \E up \in BOOLEAN :
          IF ~up
          THEN /\ reply' = [endpoint |-> "stats", code |-> 500, headers |-> {},
                            body |-> <<>>]
               /\ UNCHANGED cache
          ELSE IF cache.stats # <<>>
               THEN /\ reply' = [endpoint |-> "stats", code |-> 200,
                                 headers |-> {}, body |-> cache.stats]
                    /\ UNCHANGED cache
               ELSE /\ cache' = [cache EXCEPT !.stats = <<BridgeHealthResponse>>]
                    /\ reply' = [endpoint |-> "stats", code |-> 200,
                                 headers |-> {}, body |-> <<BridgeHealthResponse>>]
    /\ UNCHANGED <<remoteVars, workerVars, pollerVars, cache_error, apiVars>>

(***************************************************************************)
(* The read API of the mirror: src/api/v1/bridge.py over                   *)
(* src/services/bridge_service.py.  Requests are past authentication and   *)
(* rate limiting.  A filter is <<>> when the query parameter is absent.    *)
(***************************************************************************)
Matches(filter, v) == filter = <<>> \/ filter[1] = v

\* the orders in which ORDER BY height DESC can return a set of rows
SortedDesc(rows, k) ==
    {q \in [1..Cardinality(rows) -> rows] :
        /\ \A i, j \in DOMAIN q : i # j => q[i] # q[j]
        /\ \A i, j \in DOMAIN q : i < j => HeightOf(k, q[i]) >= HeightOf(k, q[j])}

\* OFFSET page * page_size LIMIT page_size
PageOf(q, pg, page_size) ==
    SubSeq(q, Min(Len(q), pg * page_size) + 1, Min(Len(q), (pg + 1) * page_size))

ListResponses(rows, k, pg, page_size) ==
    {[count |-> Cardinality(rows), page |-> pg, page_size |-> page_size,
      items |-> PageOf(q, pg, page_size)] : q \in SortedDesc(rows, k)}

\* the parameters BridgeService.get_wrap_requests declares, and the keywords
\* the endpoint passes to it
WrapServiceParams ==
    {"page", "page_size", "chain_id", "token_standard", "token_symbol",
     "to_address"}
WrapCallKeywords ==
    {"page", "page_size", "chain_id", "token_standard", "token_symbol",
     "to_address", "confirmations_to_finality"}

ServiceWrapRequests(pg, page_size, chain_id, token_standard, token_symbol, to_address) ==
    ListResponses({r \in db.wrap :
                      /\ Matches(chain_id, r.chain_id)
                      /\ Matches(token_standard, r.token_standard)
                      /\ Matches(token_symbol, r.token_symbol)
                      /\ Matches(to_address, r.to_address)},
                  "wrap", pg, page_size)

ServiceUnwrapRequests(pg, page_size, chain_id, token_symbol, redeemed, revoked) ==
    ListResponses({r \in db.unwrap :
                      /\ Matches(chain_id, r.chain_id)
                      /\ Matches(token_symbol, r.token_symbol)
                      /\ Matches(redeemed, r.redeemed)
                      /\ Matches(revoked, r.revoked)},
                  "unwrap", pg, page_size)

\* a dependency that admits every request
RequireNothing == TRUE

\* the dependency that admits a request to the ledger endpoints
require_bridge_sync_complete == flag

NotReady(endpoint) ==
    [endpoint |-> endpoint, code |-> 503, headers |-> {"Retry-After"},
     body |-> <<>>]
ServerError(endpoint) ==
    [endpoint |-> endpoint, code |-> 500, headers |-> {}, body |-> <<>>]
Ok(endpoint, content) ==
    [endpoint |-> endpoint, code |-> 200, headers |-> {}, body |-> <<content>>]

\* the query parameters of the requests made to GET /bridge/wraps
NoFilter ==
    [chain_id |-> <<>>, token_symbol |-> <<>>, to_address |-> <<>>,
     confirmations_to_finality |-> <<>>]
WrapFilters ==
    {NoFilter, [NoFilter EXCEPT !.chain_id = <<1>>],
     [NoFilter EXCEPT !.token_symbol = <<"ZNN">>, !.to_address = <<1>>],
     [NoFilter EXCEPT !.confirmations_to_finality = <<0>>]}

ApiFrame == UNCHANGED <<remoteVars, workerVars, pollerVars, cacheVars, apiVars>>

\* GET /bridge/wraps
get_wrap_requests ==
    /\ \E pg \in 0..1, f \in WrapFilters :
          IF ~require_bridge_sync_complete
          THEN reply' = NotReady("wraps")
          ELSE IF WrapCallKeywords \subseteq WrapServiceParams
               THEN \E resp \in ServiceWrapRequests(pg, PageSize, f.chain_id, <<>>,
                                                    f.token_symbol, f.to_address) :
                       reply' = Ok("wraps", resp)
               ELSE reply' = ServerError("wraps")
    /\ ApiFrame

\* GET /bridge/unwraps
get_unwrap_requests ==
    /\ \E pg \in 0..1, redeemed \in {<<>>, <<TRUE>>} :
          IF ~require_bridge_sync_complete
          THEN reply' = NotReady("unwraps")
          ELSE \E resp \in ServiceUnwrapRequests(pg, PageSize, <<>>, <<>>,
                                                 redeemed, <<>>) :
                  reply' = Ok("unwraps", resp)
    /\ ApiFrame

\* GET /bridge/sync-status
get_bridge_sync_status ==
    /\ reply' = Ok("sync-status", [sync_complete |-> flag,
                                   wrap_count |-> Cardinality(db.wrap),
                                   unwrap_count |-> Cardinality(db.unwrap)])
    /\ ApiFrame

NoCache == [status |-> <<>>, stats |-> <<>>]
NoReply == [endpoint |-> "none", code |-> 0, headers |-> {}, body |-> <<>>]

NoPoller ==
    /\ nodes = {}
    /\ snapshots = {}
    /\ results = <<>>
    /\ responses = <<>>
    /\ ppc = "idle"
    /\ clock = 0
    /\ summary = <<>>
    /\ ws_clients = 0
    /\ sent = <<>>
    /\ round_error = FALSE

NoService ==
    /\ NoPoller
    /\ cache_error = FALSE
    /\ cache = NoCache
    /\ reply = NoReply

(***************************************************************************)
(* Initial states.                                                         *)
(***************************************************************************)
\* no token validation is running
NoAuth == [pc |-> "idle", token |-> 0, seen |-> <<>>, result |-> "none"]

\* broadcast_status is not running
NoBroadcast == [pc |-> "idle", used |-> 0, visited |-> {}, cur |-> 0,
                disconnected |-> {}]

NoApi ==
    /\ sched = "stopped"
    /\ job_pc = "idle"
    /\ init_pc = "none"
    /\ fired = 0
    /\ task = <<>>
    /\ id_answer = <<>>
    /\ issued = <<>>
    /\ all_connections = {}
    /\ active_connections = <<>>
    /\ bcast = NoBroadcast
    /\ received = {}
    /\ stayed = {}
    /\ stopped_at = "none"
    /\ zset = {}
    /\ calls = <<>>
    /\ wall = 0
    /\ api_tokens = <<>>
    /\ auth = NoAuth

NoHarness ==
    /\ records = <<>>
    /\ applied = 0
    /\ before = {}
    /\ once = {}

InitWorker ==
    /\ flag = FALSE
    /\ pc = "start"
    /\ kind = "wrap"
    /\ total = 0
    /\ synced = 0
    /\ page = 0
    /\ latest_height = NoneVal
    /\ new_count = 0
    /\ pending = {}
    /\ checked = {}
    /\ exc = "none"
    /\ fetches = 0
    /\ snap = {}
    /\ seen_max = 0
    /\ crashes = 0
    /\ bootDone = {}
    /\ interrupted = FALSE

\* a fresh deployment: empty ledger, empty store, worker about to start
Init ==
    /\ now = 1
    /\ remote = [wrap |-> <<>>, unwrap |-> <<>>]
    /\ db = [wrap |-> {}, unwrap |-> {}]
    /\ InitWorker
    /\ NoHarness
    /\ NoService
    /\ txn = FALSE
    /\ NoApi

\* listings the ledger can hold at momentum height top: most recent first,
\* heights in the order of creation
HeightSeqs(n, top) ==
    {f \in [1..n -> 1..top] : \A i, j \in 1..n : i < j => f[i] >= f[j]}

WrapListings(top) ==
    UNION {{[i \in 1..n |-> [id |-> n - i + 1, h |-> f[i], fin |-> f[i] + ConfBlocks]] :
                f \in HeightSeqs(n, top)}
              : n \in 0..MaxWraps}

UnwrapListings(top) ==
    UNION {{[i \in 1..n |-> [id |-> n - i + 1, h |-> f[i], st |-> g[i]]] :
                f \in HeightSeqs(n, top),
                g \in {x \in [1..n -> {"open", "redeemed", "revoked"}] :
                          \A i \in 1..n : x[i] = "redeemed" => top - RedeemDelay >= 1}}
              : n \in 0..MaxUnwraps}

Redeemable(lst, top) ==
    \A i \in 1..Len(lst) : lst[i].st = "redeemed" => lst[i].h + RedeemDelay <= top

\* a ledger that stays as it is, a worker about to start on an empty store
InitStatic ==
    /\ now \in 1..MaxHeight
    /\ remote \in [wrap : WrapListings(now),
                   unwrap : {l \in UnwrapListings(now) : Redeemable(l, now)}]
    /\ db = [wrap |-> {}, unwrap |-> {}]
    /\ InitWorker
    /\ NoHarness
    /\ NoService
    /\ txn = FALSE
    /\ NoApi

\* the rows a store holds of the listing's records below its n newest ones,
\* as they were when the newest of them was registered
SeenRows(k, lst, n) ==
    IF n >= Len(lst) THEN {}
    ELSE LET t == lst[n + 1].h
             AsSeen(e) == IF k = "wrap" THEN e ELSE [e EXCEPT !.st = "open"]
         IN Upsert(k, {}, [i \in 1..(Len(lst) - n) |->
                              RemoteJsonAt(k, AsSeen(lst[n + i]), t)])

\* a synced worker between two ticks; the ledger has aged since the last one
\* and has received requests of one kind
InitSteady ==
    /\ now \in 1..MaxHeight
    /\ remote \in [wrap : WrapListings(now),
                   unwrap : {l \in UnwrapListings(now) : Redeemable(l, now)}]
    /\ \E nw \in 0..Len(remote.wrap), nu \in 0..Len(remote.unwrap) :
          /\ nw = 0 \/ nu = 0
          /\ db = [wrap |-> SeenRows("wrap", remote.wrap, nw),
                   unwrap |-> SeenRows("unwrap", remote.unwrap, nu)]
    /\ flag = TRUE
    /\ pc = "sleep"
    /\ kind = "wrap"
    /\ total = 0
    /\ synced = 0
    /\ page = 0
    /\ latest_height = NoneVal
    /\ new_count = 0
    /\ pending = {}
    /\ checked = {}
    /\ exc = "none"
    /\ fetches = 0
    /\ snap = {}
    /\ seen_max = 0
    /\ crashes = 0
    /\ bootDone = Kinds
    /\ interrupted = FALSE
    /\ NoHarness
    /\ NoService
    /\ txn = FALSE
    /\ NoApi

\* wraps that need 1..MaxConf more momentums to be final, all of them stored
\* as the ledger reports them now; a synced worker between two ticks
PendingListings ==
    UNION {{[i \in 1..n |-> [id |-> n - i + 1, h |-> 1, fin |-> 1 + f[i]]] :
                f \in [1..n -> 1..MaxConf]}
              : n \in 1..MaxWraps}

\* listings of more pending requests than a pending-refresh pass can page
\* through, or just few enough; every request is stored as the ledger reports
\* it; a synced worker between two ticks
CeilingLens == {PageLimit * PageSize + d : d \in 0..(PageSize + 1)}

CeilingListing(k, n) ==
    [i \in 1..n |-> IF k = "wrap"
                    THEN [id |-> n - i + 1, h |-> 1, fin |-> 1 + ConfBlocks]
                    ELSE [id |-> n - i + 1, h |-> 1, st |-> "open"]]

InitCeiling ==
    /\ now = 1
    /\ remote \in [wrap : {CeilingListing("wrap", n) : n \in CeilingLens},
                   unwrap : {CeilingListing("unwrap", n) : n \in CeilingLens}]
    /\ db = [wrap |-> SeenRows("wrap", remote.wrap, 0),
             unwrap |-> SeenRows("unwrap", remote.unwrap, 0)]
    /\ flag = TRUE
    /\ pc = "sleep"
    /\ kind = "wrap"
    /\ total = 0
    /\ synced = 0
    /\ page = 0
    /\ latest_height = NoneVal
    /\ new_count = 0
    /\ pending = {}
    /\ checked = {}
    /\ exc = "none"
    /\ fetches = 0
    /\ snap = {}
    /\ seen_max = 0
    /\ crashes = 0
    /\ bootDone = Kinds
    /\ interrupted = FALSE
    /\ NoHarness
    /\ NoService
    /\ txn = FALSE
    /\ NoApi

InitPending ==
    /\ now = 1
    /\ remote \in [wrap : PendingListings, unwrap : {<<>>}]
    /\ db = [wrap |-> SeenRows("wrap", remote.wrap, 0), unwrap |-> {}]
    /\ flag = TRUE
    /\ pc = "sleep"
    /\ kind = "wrap"
    /\ total = 0
    /\ synced = 0
    /\ page = 0
    /\ latest_height = NoneVal
    /\ new_count = 0
    /\ pending = {}
    /\ checked = {}
    /\ exc = "none"
    /\ fetches = 0
    /\ snap = {}
    /\ seen_max = 0
    /\ crashes = 0
    /\ bootDone = Kinds
    /\ interrupted = FALSE
    /\ NoHarness
    /\ NoService
    /\ txn = FALSE
    /\ NoApi

\* a deployment with its orchestrator nodes configured and no poll run yet
InitPoll ==
    /\ now = 1
    /\ remote = [wrap |-> <<>>, unwrap |-> <<>>]
    /\ db = [wrap |-> {}, unwrap |-> {}]
    /\ InitWorker
    /\ NoHarness
    /\ nodes \in {1..n : n \in 0..MaxNodes}
    /\ snapshots = {}
    /\ results = <<>>
    /\ responses = <<>>
    /\ ppc = "idle"
    /\ clock = 0
    /\ summary = <<>>
    /\ ws_clients \in 0..1
    /\ sent = <<>>
    /\ round_error = FALSE
    /\ cache_error = FALSE
    /\ cache = NoCache
    /\ reply = NoReply
    /\ txn = FALSE
    /\ NoApi

\* pages of records and tables for the upsert harness
SeqsUpTo(S, n) == UNION {[1..m -> S] : m \in 0..n}

HarnessJson(k) ==
    IF k = "wrap"
    THEN {WrapJsonOf(id, v, conf, v, IF v = 1 THEN <<0, 7>> ELSE <<7, 0>>) :
            id \in 1..2, conf \in 0..1, v \in 1..2}
    ELSE {UnwrapJsonOf(1, log, v, st[1], st[2], st[3], v, <<7 * v>>) :
            log \in 0..1, v \in 1..2,
            st \in {<<0, 0, 1>>, <<0, 0, 0>>, <<1, 0, 0>>, <<0, 1, 0>>}}

HarnessStored(k) ==
    IF k = "wrap"
    THEN {WrapJsonOf(id, 1, conf, 1, <<0, 7>>) : id \in 1..2, conf \in 0..1}
    ELSE {UnwrapJsonOf(1, log, 1, st[1], st[2], st[3], 1, <<7>>) :
            log \in 0..1,
            st \in {<<0, 0, 1>>, <<0, 0, 0>>, <<1, 0, 0>>, <<0, 1, 0>>}}

HarnessTables(k) ==
    {Upsert(k, {}, s) :
        s \in {x \in SeqsUpTo(HarnessStored(k), 2) : ~CardinalityViolation(k, x)}}

InitUpsert ==
    /\ now = 1
    /\ remote = [wrap |-> <<>>, unwrap |-> <<>>]
    /\ kind \in Kinds
    /\ \E t \in HarnessTables(kind) :
          db = [wrap |-> IF kind = "wrap" THEN t ELSE {},
                unwrap |-> IF kind = "unwrap" THEN t ELSE {}]
    /\ records \in SeqsUpTo(HarnessJson(kind), MaxPageRecords)
    /\ NoService
    /\ txn = FALSE
    /\ NoApi
    /\ applied = 0
    /\ before = {}
    /\ once = {}
    /\ flag = FALSE
    /\ pc = "idle"
    /\ total = 0
    /\ synced = 0
    /\ page = 0
    /\ latest_height = NoneVal
    /\ new_count = 0
    /\ pending = {}
    /\ checked = {}
    /\ exc = "none"
    /\ fetches = 0
    /\ snap = {}
    /\ seen_max = 0
    /\ crashes = 0
    /\ bootDone = {}
    /\ interrupted = FALSE

(***************************************************************************)
(* Specifications.                                                         *)
(***************************************************************************)
Worker ==
    \/ initial_sync
    \/ full_sync_count
    \/ full_sync_page
    \/ full_sync_done
    \/ set_sync_complete
    \/ collect_new_data
    \/ sync_new_start
    \/ sync_new_page
    \/ update_pending_start
    \/ update_pending_page
    \/ update_pending_done

WorkerError ==
    \/ full_sync_error
    \/ sync_new_error
    \/ update_pending_error

\* the worker, with its failures and restarts, against a ledger that ages and
\* receives wrap requests
Next ==
    \/ Worker
    \/ WorkerError
    \/ Crash
    \/ Restart
    \/ RemoteMomentum
    \/ RemoteAddWrap

Spec == Init /\ [][Next]_vars

\* the same against a ledger that ages, receives unwrap requests and sees them
\* redeemed or revoked
NextUnwrap ==
    \/ Worker
    \/ WorkerError
    \/ Crash
    \/ Restart
    \/ RemoteMomentum
    \/ RemoteAddUnwrap
    \/ RemoteRedeem
    \/ RemoteRevoke

SpecUnwrap == Init /\ [][NextUnwrap]_vars

\* the worker fails, is killed and is started again, against a fixed ledger
NextBoot ==
    \/ Worker
    \/ WorkerError
    \/ Crash
    \/ Restart

SpecBoot == InitStatic /\ [][NextBoot]_vars

\* the worker against a fixed ledger; no call fails and nothing kills it
SpecRun == InitStatic /\ [][Worker]_vars

\* the worker is killed and started again; no call fails; the event loop keeps
\* running the worker and the supervisor keeps restarting it
NextCrash ==
    \/ Worker
    \/ Crash
    \/ Restart

FairCrash ==
    /\ InitStatic
    /\ [][NextCrash]_vars
    /\ WF_vars(Worker)
    /\ WF_vars(Restart)

\* ticks of a synced worker against a fixed ledger; no call fails
NextTick ==
    \/ collect_new_data
    \/ sync_new_start
    \/ sync_new_page
    \/ update_pending_start
    \/ update_pending_page
    \/ update_pending_done

SpecTick == InitSteady /\ [][NextTick]_vars

\* ticks of a synced worker, one momentum apart, against a ledger whose wraps
\* count down; no call fails
NextPending ==
    \/ collect_after_momentum
    \/ sync_new_start
    \/ sync_new_page
    \/ update_pending_start
    \/ update_pending_page
    \/ update_pending_done

SpecPending == InitPending /\ [][NextPending]_vars

\* the upserts alone
NextUpsert ==
    \/ apply_upsert
    \/ apply_upsert_error

SpecUpsert == InitUpsert /\ [][NextUpsert]_vars

\* ticks of a synced worker against a fixed ledger with more pending requests
\* than the safety limit of the pending refresh covers; no call fails
SpecCeiling == InitCeiling /\ [][NextTick]_vars

\* ticks of a synced worker against a fixed ledger; a remote call of the
\* incremental paging may fail
NextTickFail ==
    \/ NextTick
    \/ sync_new_error

SpecTickFail == InitSteady /\ [][NextTickFail]_vars

\* the bootstrap against a ledger that registers requests meanwhile
NextGrow ==
    \/ initial_sync
    \/ full_sync_count
    \/ full_sync_page
    \/ full_sync_done
    \/ set_sync_complete
    \/ RemotePrepend

SpecGrow == InitStatic /\ [][NextGrow]_vars

\* the poll job with a key-value store that may fail any call
NextPoll ==
    \/ collect_orchestrator_data
    \/ query_orchestrator
    \/ collect_all_status
    \/ _update_status_cache
    \/ broadcast_status

SpecPoll == InitPoll /\ [][NextPoll]_vars

\* the poll job, the expiry of cache entries and readers of the status
NextStatus ==
    \/ NextPoll
    \/ cache_expire
    \/ get_bridge_status

SpecStatus == InitPoll /\ [][NextStatus]_vars

\* the poll job, the expiry of cache entries and readers of the statistics
NextStats ==
    \/ NextPoll
    \/ cache_expire
    \/ get_bridge_health_history

SpecStats == InitPoll /\ [][NextStats]_vars

\* the worker's bootstrap on a stable ledger, and readers of the mirror
NextApi ==
    \/ initial_sync
    \/ full_sync_count
    \/ full_sync_page
    \/ full_sync_done
    \/ set_sync_complete
    \/ get_wrap_requests
    \/ get_unwrap_requests
    \/ get_bridge_sync_status

SpecApi == InitStatic /\ [][NextApi]_vars

(***************************************************************************)
(* Properties.                                                             *)
(***************************************************************************)
StoredKeys(k) == {RowKey(k, row) : row \in db[k]}

RemoteKeyAt(k, i) == JsonKey(k, RemoteJson(k, remote[k][i]))

AllRemoteStored ==
    \A k \in Kinds : \A i \in 1..Len(remote[k]) : RemoteKeyAt(k, i) \in StoredKeys(k)

\* C1: a bootstrap that is interrupted after it committed rows and is then
\* restarted eventually leaves every record of the remote listing in the store.
C1_InterruptedBootstrapRecovers == [](interrupted => <>AllRemoteStored)

\* C2, as stated: an exception raised in any sync pass (bootstrap, incremental
\* tick, pending refresh) never stops the engine.
C2_AnyExceptionContained == exc # "none" => pc # "exited"

\* C2, amended: an exception raised in an incremental tick or a pending refresh
\* is contained and the worker continues with the next pass or sleeps until the
\* next tick; an exception raised in the bootstrap ends the process.
C2_ExceptionContainedAfterBootstrap ==
    /\ exc = "incr" => pc = "pend_start"
    /\ exc = "pending" => pc \in {"incr_start", "sleep"}
    /\ exc = "bootstrap" => pc = "exited"

\* an incremental page fetch raised after a completed bootstrap and the worker
\* goes on to the pending refresh
C2_Witness == exc = "incr" /\ pc = "pend_start" /\ bootDone = Kinds /\ flag

\* C3: the readiness flag is set only when the bootstrap of both kinds has
\* completed, also after a restart that follows an interrupted bootstrap.
C3_FlagOnlyAfterBothBootstraps == flag => bootDone = Kinds

NewAbove(k) ==
    Cardinality({i \in 1..Len(remote[k]) : remote[k][i].h > latest_height})

\* every record of the listing at or below the cursor has a row in the store
SeenBelow(k) ==
    \A i \in 1..Len(remote[k]) :
        remote[k][i].h <= latest_height => RemoteKeyAt(k, i) \in StoredKeys(k)

CeilDiv(a, b) == (a + b - 1) \div b

\* C5, as stated: with N records above the local maximum followed by records
\* already seen, the incremental paging fetches ceil(N / P) pages plus one.
C5_EarlyStopCeil ==
    (pc = "pend_start" /\ Truthy(latest_height) /\ SeenBelow(kind))
        => fetches = CeilDiv(NewAbove(kind), PageSize) + 1

\* C5, amended: with N records above the local maximum followed by records
\* already seen, the incremental paging fetches floor(N / P) + 1 pages: the
\* page on which the new records end is the confirming page, and a further page
\* is fetched only when P divides N.
C5_EarlyStopFloor ==
    (pc = "pend_start" /\ Truthy(latest_height) /\ SeenBelow(kind))
        => fetches = (NewAbove(kind) \div PageSize) + 1

\* a pass has ended that found new records whose number P does not divide
C5_Witness ==
    /\ pc = "pend_start"
    /\ Truthy(latest_height)
    /\ SeenBelow(kind)
    /\ NewAbove(kind) >= 1
    /\ NewAbove(kind) % PageSize # 0
    /\ fetches = (NewAbove(kind) \div PageSize) + 1

\* C6: no step of any sync pass raises the stored confirmations_to_finality of
\* a wrap row.
C6_ConfirmationsNeverIncrease ==
    [][\A r \in db.wrap : \A r2 \in db'.wrap :
          r2.request_id = r.request_id
              => r2.confirmations_to_finality <= r.confirmations_to_finality]_vars

\* a pending refresh has rewritten a wrap row that was pending, down to 0
C6_Witness ==
    /\ pc = "pend_page"
    /\ kind = "wrap"
    /\ \E r \in db.wrap : r.request_id \in checked /\ r.confirmations_to_finality = 0

\* C7: no step of any sync pass turns redeemed or revoked of an unwrap row from
\* true to false, or raises its redeemable_in while that is above 0.
C7_UnwrapNeverRegresses ==
    [][\A r \in db.unwrap : \A r2 \in db'.unwrap :
          UnwrapKey(r2) = UnwrapKey(r)
              => /\ r.redeemed => r2.redeemed
                 /\ r.revoked => r2.revoked
                 /\ r.redeemable_in > 0 => r2.redeemable_in <= r.redeemable_in]_vars

\* a pending refresh has rewritten an unwrap row that was pending: its
\* countdown has run out and it is redeemed or revoked
C7_Witness ==
    /\ pc = "pend_page"
    /\ kind = "unwrap"
    /\ \E r \in db.unwrap :
          /\ UnwrapKey(r) \in checked
          /\ r.redeemed \/ r.revoked
          /\ r.redeemable_in = 0

\* C8: applying an upsert a second time with the same page of records leaves
\* the table exactly as the first application left it.
C8_UpsertIdempotent == applied = 2 => db[kind] = once

\* the page was applied twice; the first application added a row and rewrote
\* a stored one
C8_Witness ==
    /\ applied = 2
    /\ exc = "none"
    /\ Cardinality(once) > Cardinality(before)
    /\ before \ once # {}

\* the columns the ON CONFLICT clause of a kind sets
MutableFields(k) ==
    IF k = "wrap" THEN {"confirmations_to_finality"}
                  ELSE {"redeemed", "revoked", "redeemable_in"}

\* the entries of the applied page that carry the key of a row
Incoming(row) ==
    {v \in Range(Values(kind, records)) : RowKey(kind, v) = RowKey(kind, row)}

\* C9: an upsert of a record whose natural key is stored overwrites the mutable
\* fields of that row with the incoming values, leaves every other field of it
\* as it was, and adds no row for that key.
C9_OnlyMutableFieldsOverwritten ==
    (applied >= 1 /\ exc = "none") =>
        /\ \A row \in before :
              \E r2 \in once :
                 /\ r2.id = row.id
                 /\ \A f \in DOMAIN row :
                       r2[f] = IF f \in MutableFields(kind) /\ Incoming(row) # {}
                               THEN (CHOOSE v \in Incoming(row) : TRUE)[f]
                               ELSE row[f]
        /\ \A a, b \in once : RowKey(kind, a) = RowKey(kind, b) => a = b
        /\ Cardinality(once) = Cardinality(before)
              + Cardinality({RowKey(kind, v) : v \in Range(Values(kind, records))}
                                \ {RowKey(kind, row) : row \in before})

\* a record was applied whose key is stored and whose signature, amount,
\* height and mutable fields all differ from the stored ones
C9_Witness ==
    /\ applied >= 1
    /\ exc = "none"
    /\ \E row \in before : \E v \in Incoming(row) :
          /\ v.signature # row.signature
          /\ v.amount # row.amount
          /\ HeightOf(kind, v) # HeightOf(kind, row)
          /\ \E f \in MutableFields(kind) : v[f] # row[f]

\* C10: each table holds at most one row per natural key.
C10_NaturalKeysUnique ==
    \A k \in Kinds : \A a, b \in db[k] : RowKey(k, a) = RowKey(k, b) => a = b

\* both kinds were bootstrapped, the wraps went through an incremental pass and
\* a pending refresh, and the pending refresh of the unwraps has rewritten rows
C10_Witness ==
    /\ bootDone = Kinds
    /\ pc = "pend_page"
    /\ kind = "unwrap"
    /\ checked # {}
    /\ db.wrap # {}
    /\ \E r \in db.wrap : r.confirmations_to_finality > 0

\* the pending-refresh passes over the wraps that have completed, when ticks
\* are one momentum apart and the first tick came at momentum 2
PassesDone ==
    IF pc = "sleep" \/ kind = "unwrap" THEN now - 1
    ELSE IF now >= 2 THEN now - 2 ELSE 0

\* C11: a wrap stored with confirmations_to_finality = k > 0 that k consecutive
\* pending-refresh passes see reported as k-1, ..., 0 is in the pending set
\* before each of those passes and out of it after the k-th; the stored value
\* after j <= k passes is k - j.
C11_PendingConvergence ==
    \A i \in 1..Len(remote.wrap) :
        LET e == remote.wrap[i]
            k == e.fin - 1
        IN pc # "pend_page" =>
              /\ e.id \in PendingKeys("wrap") <=> PassesDone < k
              /\ \E r \in db.wrap :
                    /\ r.request_id = e.id
                    /\ r.confirmations_to_finality = Max(0, k - PassesDone)

\* a wrap stored with MaxConf confirmations to go has left the pending set
\* with the pass that saw it reported as 0
C11_Witness ==
    /\ pc = "incr_start"
    /\ kind = "unwrap"
    /\ \E i \in 1..Len(remote.wrap) :
          /\ remote.wrap[i].fin - 1 = MaxConf
          /\ PassesDone = MaxConf
          /\ remote.wrap[i].id \notin PendingKeys("wrap")

\* C12: the bootstrap of a kind against a stable listing of T records reads
\* the count, then fetches the pages 0, 1, ... of P records in turn, ceil(T / P)
\* of them, and leaves T rows in the table.
C12_BootstrapPages ==
    /\ pc = "full_page" =>
          /\ total = Len(remote[kind])
          /\ page = fetches
          /\ synced = Min(total, fetches * PageSize)
          /\ Cardinality(db[kind]) = synced
    /\ \A k \in bootDone :
          /\ Cardinality(db[k]) = Len(remote[k])
          /\ (k = "wrap" /\ pc = "full_count") \/ (k = "unwrap" /\ pc = "set_flag")
                => fetches = CeilDiv(Len(remote[k]), PageSize)

\* the wraps are bootstrapped from a listing whose last page is a partial one
C12_Witness ==
    /\ pc = "full_count"
    /\ kind = "unwrap"
    /\ bootDone = {"wrap"}
    /\ Len(remote.wrap) > PageSize
    /\ Len(remote.wrap) % PageSize # 0
    /\ fetches = (Len(remote.wrap) \div PageSize) + 1
    /\ Cardinality(db.wrap) = Len(remote.wrap)

\* the snapshot rows a poll round wrote
RoundRows(t) == {r \in snapshots : r.timestamp = t}
ZeroDepths(r) ==
    \A i \in 1..Len(r.network_stats) :
        r.network_stats[i].wraps_count = 0 /\ r.network_stats[i].unwraps_count = 0
RoundStored == ppc \in {"update_cache", "broadcast", "idle"} /\ clock >= 1

\* C13: a poll round over N active nodes writes exactly N snapshot rows, one
\* per node, whichever node queries fail; the row of a failed node is
\* offline, carries an error text and zero queue depths, and the row of any
\* other node is what the node answered.
C13_PollRoundSnapshots ==
    /\ \A t \in 1..clock :
          (t < clock \/ RoundStored) =>
              /\ Cardinality(RoundRows(t)) = Cardinality(nodes)
              /\ \A n \in nodes : \E r \in RoundRows(t) : r.node_id = n
    /\ (RoundStored /\ nodes # {}) =>
          \A n \in nodes : \E r \in RoundRows(clock) :
              /\ r.node_id = n
              /\ IF responses[n].type = "ok"
                 THEN /\ r.is_online = (responses[n].state \in ONLINE_STATES)
                      /\ r.state = responses[n].state
                      /\ r.error_message = NoText
                      /\ Len(r.network_stats) = Len(Networks)
                      /\ \A i \in 1..Len(Networks) :
                            /\ r.network_stats[i].wraps_count = responses[n].depth
                            /\ r.network_stats[i].unwraps_count = responses[n].depth
                 ELSE /\ ~r.is_online
                      /\ r.error_message \notin {NoText, ""}
                      /\ ZeroDepths(r)

C13_Witness ==
    /\ ppc = "idle"
    /\ clock = MaxRounds
    /\ Cardinality(nodes) = MaxNodes
    /\ \E n \in nodes : responses[n].type = "network_error"
    /\ \E n \in nodes : responses[n].type = "ok" /\ responses[n].state = 0
    /\ Cardinality(RoundRows(clock)) = MaxNodes
    /\ Cardinality(snapshots) = MaxRounds * MaxNodes

\* the aggregate a status must carry, given the snapshot rows
OnlineNodes ==
    {n \in nodes :
        \E r \in snapshots :
            /\ r.node_id = n
            /\ r.is_online
            /\ \A q \in snapshots : q.node_id = n => q.timestamp <= r.timestamp}

Aggregate(st) ==
    /\ st.bridge_status =
          (IF Cardinality(OnlineNodes) >= MinOnline THEN "online" ELSE "offline")
    /\ st.online_count = Cardinality(OnlineNodes)
    /\ st.online_count <= st.total_count
    /\ st.total_count = Cardinality(nodes)
    /\ \A n \in nodes :
          (\A r \in snapshots : r.node_id # n) => ~st.orchestrators[n].is_online

\* C14: every status built from the relational store (for the cache, for the
\* broadcast, for a reader that found no cache entry) says "online" exactly
\* when the active nodes whose latest snapshot is online number at least the
\* configured minimum; online_count is that number, it never exceeds
\* total_count, and a node without a snapshot is counted offline.
C14_AggregateStatus ==
    [][/\ (cache'.status # cache.status /\ cache'.status # <<>>) =>
              Aggregate(cache'.status[1])
       /\ (sent' # sent /\ sent' # <<>>) => Aggregate(sent'[1])
       /\ (reply' # reply /\ reply'.code = 200 /\ cache.status = <<>>) =>
              Aggregate(reply'.body[1])]_vars

C14_Witness ==
    /\ sent # <<>>
    /\ sent[1].bridge_status = "online"
    /\ sent[1].online_count = MinOnline
    /\ reply.code = 200
    /\ reply.body[1].bridge_status = "offline"
    /\ \E n \in nodes : reply.body[1].orchestrators[n].last_checked = NoneVal

\* C15: while the sync-complete flag is not set, a request to the wrap list or
\* the unwrap list is answered 503 with Retry-After and no rows; the
\* sync-status endpoint answers 200 either way and reports complete = false
\* exactly while the flag is not set.
C15_NotReadyGate ==
    [][reply' # reply =>
         /\ (~flag /\ reply'.endpoint \in {"wraps", "unwraps"}) =>
               /\ reply'.code = 503
               /\ "Retry-After" \in reply'.headers
               /\ reply'.body = <<>>
         /\ reply'.endpoint = "sync-status" =>
               /\ reply'.code = 200
               /\ reply'.body[1].sync_complete = flag]_vars

C15_Witness ==
    /\ ~flag
    /\ db.unwrap # {}
    /\ reply = NotReady("unwraps")

\* a poll round has run to its end without an error
RoundDone == ppc = "idle" /\ clock >= 1 /\ ~round_error

\* C16: once a poll round has committed its snapshots and ended, a statistics
\* read does not return an entry that was cached before that round: the
\* period of the statistics returned ends within the round or after it.
C16_StatisticsInvalidated ==
    [][(/\ reply' # reply
        /\ reply'.endpoint = "stats"
        /\ reply'.code = 200
        /\ RoundDone
        /\ nodes # {}) => reply'.body[1].period_end >= clock]_vars

\* C17: reading the current orchestrator status does not fail when the
\* key-value store is unavailable: every status read is answered 200 with a
\* status, the one computed from the relational store if need be.
C17_StatusReadFallsBack ==
    reply.endpoint = "status" => reply.code = 200 /\ reply.body # <<>>

\* C18: when the write of the status cache that ends a poll round fails, the
\* round's snapshots stay committed, the poll job does not log the round as
\* failed, and the fresh status is still broadcast to the connected clients.
C18_CacheWriteFailureSwallowed ==
    (cache_error /\ ppc = "idle") =>
        /\ Cardinality(RoundRows(clock)) = Cardinality(nodes)
        /\ ~round_error
        /\ ws_clients > 0 => sent # <<>>

\* the stored wraps a request's filters select
MatchingWraps(f) ==
    {r \in db.wrap :
        /\ Matches(f.chain_id, r.chain_id)
        /\ Matches(f.token_symbol, r.token_symbol)
        /\ Matches(f.to_address, r.to_address)
        /\ Matches(f.confirmations_to_finality, r.confirmations_to_finality)}

\* C19: once the mirror is ready, a wrap list read with any of the filters
\* (chain id, token symbol, destination address, exact confirmations to
\* finality) is answered with the number of stored wraps that match and with
\* the requested page of them, sorted by creation height descending.
C19_WrapListRead ==
    [][(reply' # reply /\ reply'.endpoint = "wraps" /\ flag) =>
          /\ reply'.code = 200
          /\ \E pg \in 0..1, f \in WrapFilters :
                reply'.body[1] \in
                    ListResponses(MatchingWraps(f), "wrap", pg, PageSize)]_vars

\* C20: the store held every record the ledger had before its newest ones
\* were registered, in non-decreasing order of height; when the incremental
\* pass of a tick has ended without error the store holds every record of
\* the listing, also a new one registered at the height of the store's
\* previous maximum.
C20_TickHoldsEveryRecord ==
    (pc = "pend_start" /\ exc = "none") =>
        \A i \in 1..Len(remote[kind]) : RemoteKeyAt(kind, i) \in StoredKeys(kind)

\* C21: when the full sync of a kind ends without error, every record that
\* was in the remote listing when it read the count has a row in the store,
\* also when the ledger registered new requests while it was paging.
C21_BootstrapKeepsStartListing ==
    [][(pc = "full_page" /\ pc' \in {"full_count", "set_flag"}) =>
          \A i \in 1..Len(remote[kind]) :
              remote[kind][i].id <= total => RemoteKeyAt(kind, i) \in StoredKeys(kind)]_vars

\* the natural keys of the records a page of the remote listing holds
PageKeys(k, pg) ==
    LET recs == Get(GetAllRequests(k, pg, PageSize), "list", <<>>)
    IN {JsonKey(k, recs[i]) : i \in 1..Len(recs)}

\* a row that the pending query of its kind selects
PendingRow(k, row) ==
    IF k = "wrap" THEN row.confirmations_to_finality > 0
    ELSE row.redeemed = FALSE /\ row.revoked = FALSE

\* C22: a pending-refresh pass fetches at most the 101 pages 0..100; a pass
\* that has not observed every pending key and always got a non-empty page
\* stops exactly after the fetch of page 100, without an error, and leaves the
\* rows of the pending keys it did not observe as they were, still pending.
C22_PendingCeiling ==
    [][pc = "pend_page" =>
          /\ fetches' <= PageLimit + 1
          /\ page <= PageLimit
          /\ (/\ pc' # "pend_page"
              /\ PageKeys(kind, page) # {}
              /\ ProperSubset(checked \cup PageKeys(kind, page), pending)) =>
                 /\ fetches' = PageLimit + 1
                 /\ page = PageLimit
                 /\ exc' = "none"
                 /\ pc' = PendingNextPc(kind)
                 /\ \A row \in db[kind] :
                       RowKey(kind, row) \in pending \ (checked \cup PageKeys(kind, page)) =>
                          /\ row \in db'[kind]
                          /\ PendingRow(kind, row)]_vars

\* the wrap pass has stopped at the limit after 101 fetches with a pending
\* wrap it never observed
C22_Witness ==
    /\ pc = "incr_start"
    /\ kind = "unwrap"
    /\ fetches = PageLimit + 1
    /\ exc = "none"
    /\ Len(remote.wrap) > (PageLimit + 1) * PageSize
    /\ 1 \in PendingKeys("wrap")

PageRecords(k, pg) == Get(GetAllRequests(k, pg, PageSize), "list", <<>>)

\* a page that ends the incremental paging: empty, or holding a record at or
\* below the cursor
StopPage(k, pg, cursor) ==
    \/ PageRecords(k, pg) = <<>>
    \/ \E i \in 1..Len(PageRecords(k, pg)) :
          JsonHeight(k, PageRecords(k, pg)[i]) <= cursor

\* C24: the incremental paging of a kind ends for every finite listing: it
\* leaves the loop on the first empty page, on the first page that holds a
\* record that is not new and on the first exception, goes on to the next
\* page otherwise, never pages beyond the end of the listing, and fetches no
\* page once it has left the loop.
C24_IncrementalTerminates ==
    [][/\ pc = "incr_page" =>
             /\ page = 0 \/ (page - 1) * PageSize < Len(remote[kind])
             /\ (fetches' = fetches + 1 /\ StopPage(kind, page, latest_height)) =>
                   pc' = "pend_start"
             /\ (fetches' = fetches + 1 /\ ~StopPage(kind, page, latest_height)) =>
                   pc' = "incr_page" /\ page' = page + 1
             /\ exc' = "incr" => pc' = "pend_start" /\ fetches' = fetches
       /\ (pc # "incr_page" /\ pc' = "incr_page") => pc = "incr_start" /\ fetches' = 0
       /\ (pc # "incr_page" /\ pc # "pend_page") => fetches' \in {fetches, 0}]_vars

\* the paging has gone past a page of new records only and meets a record that
\* is not new
C24_Witness ==
    /\ pc = "incr_page"
    /\ page >= 1
    /\ fetches >= 1
    /\ PageRecords(kind, page) # <<>>
    /\ StopPage(kind, page, latest_height)

\* C25: a pending-refresh pass fetches a page only while some key that was
\* pending at its start has not been observed; once all of them have been
\* observed, its next step ends the pass without a fetch.
C25_NoFetchOnceObserved ==
    [][pc = "pend_page" =>
          /\ fetches' # fetches => pending \ checked # {}
          /\ pending \subseteq checked => pc' # "pend_page" /\ fetches' = fetches /\ db' = db]_vars

\* every pending key has been observed and the listing goes on
C25_Witness ==
    /\ pc = "pend_page"
    /\ pending # {}
    /\ checked = pending
    /\ PageRecords(kind, page) # <<>>

\* C26: a pending-refresh pass writes only rows of its own kind whose natural
\* key was in the pending set it computed at its start: it inserts and removes
\* no row, every row it changes was pending before the change, and with an
\* empty pending set it fetches nothing and writes nothing.
C26_PendingFrame ==
    [][/\ pc = "pend_start" =>
             /\ db' = db
             /\ PendingKeys(kind) = {} => pc' = PendingNextPc(kind) /\ fetches' = 0
       /\ pc = "pend_page" =>
             /\ db'[OtherKind(kind)] = db[OtherKind(kind)]
             /\ {RowKey(kind, row) : row \in db'[kind]} = StoredKeys(kind)
             /\ Cardinality(db'[kind]) = Cardinality(db[kind])
             /\ \A row \in db[kind] \ db'[kind] :
                   /\ RowKey(kind, row) \in pending
                   /\ PendingRow(kind, row)]_vars

\* a pass has made a pending row terminal beside a row that was terminal
\* before
C26_Witness ==
    /\ pc = "pend_page"
    /\ \E row \in db[kind] : RowKey(kind, row) \in checked /\ ~PendingRow(kind, row)
    /\ \E row \in db[kind] : RowKey(kind, row) \notin pending

\* the pass that follows a pass of a tick: <<position, kind>>
TickOrder ==
    {<<<<"sleep", "wrap">>, <<"incr_start", "wrap">>>>,
     <<<<"incr_start", "wrap">>, <<"incr_page", "wrap">>>>,
     <<<<"incr_page", "wrap">>, <<"pend_start", "wrap">>>>,
     <<<<"pend_start", "wrap">>, <<"pend_page", "wrap">>>>,
     <<<<"pend_start", "wrap">>, <<"incr_start", "unwrap">>>>,
     <<<<"pend_page", "wrap">>, <<"incr_start", "unwrap">>>>,
     <<<<"incr_start", "unwrap">>, <<"incr_page", "unwrap">>>>,
     <<<<"incr_page", "unwrap">>, <<"pend_start", "unwrap">>>>,
     <<<<"pend_start", "unwrap">>, <<"pend_page", "unwrap">>>>,
     <<<<"pend_start", "unwrap">>, <<"sleep", "wrap">>>>,
     <<<<"pend_page", "unwrap">>, <<"sleep", "wrap">>>>}

\* C27: a tick runs the wrap incremental paging, the wrap pending refresh, the
\* unwrap incremental paging and the unwrap pending refresh in this order; an
\* exception of a remote call in the incremental paging of a kind is followed
\* by the pending refresh of that kind, and through it by the passes of the
\* other kind.
C27_TickOrder ==
    [][/\ <<pc, kind>> # <<pc', kind'>> => <<<<pc, kind>>, <<pc', kind'>>>> \in TickOrder
       /\ exc' = "incr" => pc = "incr_page" /\ pc' = "pend_start" /\ kind' = kind
       /\ (pc = "pend_start" /\ exc = "incr") =>
             pc' = IF PendingKeys(kind) = {} THEN PendingNextPc(kind) ELSE "pend_page"]_vars

\* the wrap paging has failed on a remote call and the refresh of the pending
\* wraps is about to run
C27_Witness ==
    /\ pc = "pend_start"
    /\ kind = "wrap"
    /\ exc = "incr"
    /\ PendingKeys("wrap") # {}
    /\ remote.unwrap # <<>>

\* C28: a starting worker runs the full sync, wraps first, exactly when both
\* tables are empty; when either table holds a row it fetches no page of a
\* full sync for either kind and goes on to the ticks.  A full sync is entered
\* in no other way.
C28_BootstrapIffEmpty ==
    [][/\ (pc = "start" /\ pc' # "crashed") =>
             IF db.wrap = {} /\ db.unwrap = {}
             THEN pc' = "full_count" /\ kind' = "wrap"
             ELSE pc' = "set_flag"
       /\ (pc = "set_flag" /\ pc' # "crashed") => pc' = "sleep"
       /\ (pc' = "full_count" /\ pc # "full_count") =>
             \/ pc = "start" /\ db.wrap = {} /\ db.unwrap = {}
             \/ pc = "full_page" /\ kind = "wrap" /\ kind' = "unwrap" /\ db.unwrap = {}
       /\ pc' = "full_page" => pc \in {"full_count", "full_page"}]_vars

\* a restarted worker skips the full sync because the wrap table holds rows,
\* although no unwrap is stored and the ledger lists some
C28_Witness ==
    /\ pc = "set_flag"
    /\ crashes >= 1
    /\ db.wrap # {}
    /\ db.unwrap = {}
    /\ remote.unwrap # <<>>
    /\ fetches = 0

\* C29: once the readiness flag is set it stays set: no step of the worker, no
\* failed pass, no empty page, no kill and no restart clears it, a restart that
\* runs the full sync again on empty tables included.
C29_FlagStaysSet ==
    [][flag => flag']_vars

\* a restarted worker pages through a full sync again while the flag of its
\* earlier run is set
C29_Witness ==
    /\ flag
    /\ pc = "full_page"
    /\ crashes >= 1
    /\ total >= 1

\* the next step of the worker is a call to the remote ledger
RemoteCallNext ==
    \/ pc \in {"full_count", "incr_page"}
    \/ pc = "full_page" /\ FullSyncContinue(synced, total)
    \/ pc = "pend_page" /\ ProperSubset(checked, pending)

\* C30: the worker's database session has no transaction open when the worker
\* calls the remote ledger.
C30_NoTransactionAcrossRemoteCall ==
    RemoteCallNext => ~txn

\* C31: the sync engine does one thing at a time: a step fetches at most one
\* page, writes the table of the kind its pass works on and no other, a tick
\* starts only when the previous one has returned to the sleep of the loop,
\* and the loop sleeps again only after the unwrap pending refresh, the last
\* pass of the tick.
C31_OnePassAtATime ==
    [][/\ fetches' \in {fetches, fetches + 1, 0}
       /\ fetches' = fetches + 1 => pc \in {"full_page", "incr_page", "pend_page"}
       /\ db' # db => /\ pc \in {"full_page", "incr_page", "pend_page"}
                      /\ db'[OtherKind(kind)] = db[OtherKind(kind)]
       /\ (pc' = "incr_start" /\ kind' = "wrap") => pc = "sleep"
       /\ (pc' = "sleep" /\ pc # "sleep") =>
             pc \in {"pend_start", "pend_page"} /\ kind = "unwrap"]_vars

\* the last pass of a tick is paging after the earlier passes wrote rows
C31_Witness ==
    /\ pc = "pend_page"
    /\ kind = "unwrap"
    /\ fetches >= 1
    /\ db.wrap # {}

(***************************************************************************)
(* The API process around the poll job: src/main.py lifespan and           *)
(* src/tasks/scheduler.py.  A poll round is followed through the awaits    *)
(* of collect_orchestrator_data; two rounds can be told apart because the  *)
(* one run at startup is awaited by lifespan and the other is a job        *)
(* instance of the scheduler.                                              *)
(***************************************************************************)
notSched == <<remoteVars, workerVars, serviceVars, queryVars, wsVars, sigVars,
              rateVars, tokenVars>>

\* the awaits of a poll round: get_all_nodes, the gathered node queries, the
\* commit, the cache write, the broadcast
RoundSteps == <<"nodes", "gather", "commit", "cache", "broadcast">>

StepAfter(p, last) ==
    IF \E i \in 1..(Len(RoundSteps) - 1) : RoundSteps[i] = p
    THEN RoundSteps[(CHOOSE i \in 1..(Len(RoundSteps) - 1) : RoundSteps[i] = p) + 1]
    ELSE last

\* the job instances the scheduler counts as running
Instances == IF job_pc = "idle" THEN 0 ELSE 1

\* lifespan, startup: setup_scheduler, start_scheduler, then the call of
\* run_initial_collection
lifespan_startup ==
    /\ sched = "stopped"
    /\ init_pc = "none"
    /\ sched' = "running"
    /\ init_pc' = RoundSteps[1]
    /\ UNCHANGED <<job_pc, fired, notSched>>

\* run_initial_collection: collect_orchestrator_data awaited by lifespan, one
\* await further or left through its except clause
run_initial_collection ==
    /\ init_pc \in Range(RoundSteps)
    /\ init_pc' \in {StepAfter(init_pc, "done"), "done"}
    /\ UNCHANGED <<sched, job_pc, fired, notSched>>

\* the interval trigger fires: the scheduler starts a job instance unless
\* max_instances of them are running
interval_trigger ==
    /\ sched = "running"
    /\ fired < MaxFires
    /\ fired' = fired + 1
    /\ job_pc' = IF Instances < MaxInstances THEN RoundSteps[1] ELSE job_pc
    /\ UNCHANGED <<sched, init_pc, notSched>>

\* the job instance: collect_orchestrator_data run by the scheduler
scheduled_collection ==
    /\ job_pc \in Range(RoundSteps)
    /\ job_pc' \in {StepAfter(job_pc, "idle"), "idle"}
    /\ UNCHANGED <<sched, init_pc, fired, notSched>>

\* lifespan, shutdown: shutdown_scheduler; whether the executor lets a running
\* job instance finish is the library's choice
shutdown_scheduler ==
    /\ sched = "running"
    /\ init_pc = "done"
    /\ sched' = "shutdown"
    /\ job_pc' \in {job_pc, "idle"}
    /\ UNCHANGED <<init_pc, fired, notSched>>

NextSched ==
    \/ lifespan_startup
    \/ run_initial_collection
    \/ interval_trigger
    \/ scheduled_collection
    \/ shutdown_scheduler

SpecSched == InitPoll /\ [][NextSched]_vars

\* C32: at most one poll round is executing at any time, the round that
\* lifespan runs at startup after it has started the scheduler included.
C32_OneRoundAtATime ==
    ~(init_pc \in Range(RoundSteps) /\ job_pc \in Range(RoundSteps))

(***************************************************************************)
(* A poll round at the grain of its awaits: the query_with_limit tasks of  *)
(* collect_all_status (src/services/orchestrator_service.py) and the two   *)
(* calls of query_orchestrator (src/utils/rpc_client.py).                  *)
(***************************************************************************)
notQuery == <<remoteVars, workerVars, nodes, snapshots, ppc, clock, summary,
              ws_clients, sent, round_error, cacheVars, reply, schedVars, wsVars,
              sigVars, rateVars, tokenVars>>

\* how a call to a node ends: an answer, an answer that carries an RPC error,
\* or an exception of the HTTP client
IdentityAnswers == {"ok", "rpc_error", "network_error"}
StatusAnswers == {"ok", "rpc_error"}
Raised == {"network_error", "http_error"}

\* the tasks that hold the semaphore
InFlight == {n \in DOMAIN task : task[n] \in {"identity", "sleep", "status"}}

SemaphoreFreeAlways == TRUE

\* asyncio.Semaphore(5): acquire returns while the value is positive
SemaphoreFree == Cardinality(InFlight) < MaxConcurrent

\* async with semaphore, then the getIdentity request of query_orchestrator
query_with_limit ==
    /\ ppc = "gather"
    /\ SemaphoreFree
    /\ \E n \in nodes :
          /\ task[n] = "waiting"
          /\ task' = [task EXCEPT ![n] = "identity"]
          /\ issued' = [issued EXCEPT ![n] = Append(@, "getIdentity")]
    /\ UNCHANGED <<results, responses, id_answer, notQuery>>

StatusFollowsAlways(answer) == TRUE

\* the getStatus request is reached unless getIdentity raised
StatusFollows(answer) == answer \notin Raised

\* getIdentity returns or raises; what it raises ends the query with an error
\* response and releases the semaphore
getIdentity_returns ==
    /\ ppc = "gather"
    /\ \E n \in nodes, answer \in IdentityAnswers :
          /\ task[n] = "identity"
          /\ id_answer' = [id_answer EXCEPT ![n] = answer]
          /\ IF StatusFollows(answer)
             THEN /\ task' = [task EXCEPT ![n] = "sleep"]
                  /\ UNCHANGED <<results, responses>>
             ELSE /\ task' = [task EXCEPT ![n] = "done"]
                  /\ results' = [results EXCEPT
                                    ![n] = QueryResult([type |-> answer], clock)]
                  /\ responses' = [responses EXCEPT ![n] = [type |-> answer]]
    /\ UNCHANGED <<issued, notQuery>>

\* asyncio.sleep(1.0) is over and the getStatus request is sent
sleep_over ==
    /\ ppc = "gather"
    /\ \E n \in nodes :
          /\ task[n] = "sleep"
          /\ task' = [task EXCEPT ![n] = "status"]
          /\ issued' = [issued EXCEPT ![n] = Append(@, "getStatus")]
    /\ UNCHANGED <<results, responses, id_answer, notQuery>>

\* what query_orchestrator makes of the two answers
AnswerOf(identity, status) ==
    IF identity = "rpc_error" \/ status = "rpc_error"
    THEN [type |-> "rpc_error"]
    ELSE [type |-> "ok", state |-> 0, depth |-> QueueDepth]

\* getStatus returns; the query ends and releases the semaphore
getStatus_returns ==
    /\ ppc = "gather"
    /\ \E n \in nodes, answer \in StatusAnswers :
          /\ task[n] = "status"
          /\ task' = [task EXCEPT ![n] = "done"]
          /\ results' = [results EXCEPT
                            ![n] = QueryResult(AnswerOf(id_answer[n], answer), clock)]
          /\ responses' = [responses EXCEPT ![n] = AnswerOf(id_answer[n], answer)]
    /\ UNCHANGED <<id_answer, issued, notQuery>>

\* the API process and its stores as deployed: no active node, no WebSocket
\* client, no request, no token
InitQuery ==
    /\ now = 1
    /\ remote = [wrap |-> <<>>, unwrap |-> <<>>]
    /\ db = [wrap |-> {}, unwrap |-> {}]
    /\ InitWorker
    /\ NoHarness
    /\ NoService
    /\ txn = FALSE
    /\ NoApi

\* the seeding script adds an active node
add_node ==
    /\ ppc = "idle"
    /\ clock = 0
    /\ Cardinality(nodes) < MaxQueryNodes
    /\ nodes' = nodes \cup {Cardinality(nodes) + 1}
    /\ UNCHANGED <<remoteVars, workerVars, snapshots, results, responses, ppc,
                   clock, summary, ws_clients, sent, round_error, cacheVars,
                   reply, apiVars>>

\* one poll round up to its commit, over any number of nodes
NextQuery ==
    \/ add_node
    \/ collect_orchestrator_data
    \/ query_with_limit
    \/ getIdentity_returns
    \/ sleep_over
    \/ getStatus_returns
    \/ collect_all_status

SpecQuery == InitQuery /\ [][NextQuery]_vars

\* C33: during a poll round at most MaxConcurrent node queries hold the
\* semaphore at any time, whatever the number of active nodes; no node is sent
\* getIdentity twice, and when the round reaches its commit every active node
\* has been queried exactly once and its query has ended.
C33_GateAndOnce ==
    /\ Cardinality(InFlight) <= MaxConcurrent
    /\ \A n \in DOMAIN issued :
          Len(SelectSeq(issued[n], LAMBDA c : c = "getIdentity")) <= 1
    /\ ppc = "update_cache" =>
          \A n \in nodes :
             /\ task[n] = "done"
             /\ Len(SelectSeq(issued[n], LAMBDA c : c = "getIdentity")) = 1

C33_Witness ==
    /\ ppc = "gather"
    /\ Cardinality(nodes) > MaxConcurrent
    /\ Cardinality(InFlight) = MaxConcurrent
    /\ \E n \in nodes : task[n] = "waiting"

\* C34: in a poll round a node is sent getStatus only after its getIdentity
\* call has returned an answer, and never before getIdentity or twice; a node
\* whose getIdentity call raised is never sent getStatus in that round.  A
\* getIdentity answer that carries an RPC error is an answer: getStatus is
\* still sent, and the query then ends with an error response.
C34_StatusAfterIdentity ==
    \A n \in DOMAIN issued :
       /\ issued[n] \in {<<>>, <<"getIdentity">>, <<"getIdentity", "getStatus">>}
       /\ "getStatus" \in Range(issued[n]) => id_answer[n] \in {"ok", "rpc_error"}
       /\ id_answer[n] \in Raised => issued[n] = <<"getIdentity">>

C34_Witness ==
    \E n, m \in DOMAIN issued :
       /\ id_answer[n] \in Raised
       /\ task[n] = "done"
       /\ issued[n] = <<"getIdentity">>
       /\ id_answer[m] = "rpc_error"
       /\ task[m] = "done"
       /\ issued[m] = <<"getIdentity", "getStatus">>
       /\ ~results[m].is_online

\* C34 as stated: whenever the getIdentity call of a node failed, by raising
\* or by an answer that carries an RPC error, the node is not sent getStatus.
C34_NoStatusAfterFailure ==
    \A n \in DOMAIN issued :
       id_answer[n] \in Raised \cup {"rpc_error"} =>
          "getStatus" \notin Range(issued[n])

(***************************************************************************)
(* The write of a poll round when the relational store fails it.           *)
(***************************************************************************)
SessionCloseKeeping(rows) == rows

\* what is left of the rows a session has flushed when it is closed without
\* a commit
SessionClose(rows) == {}

\* a flush or the commit of collect_all_status raises after some of the
\* snapshots were added; the exception leaves through the session's context
\* manager to the handler of collect_orchestrator_data
collect_all_status_error ==
    /\ ppc = "gather"
    /\ \A n \in nodes : results[n] # Pending
    /\ \E k \in 0..Cardinality(nodes) :
          snapshots' = snapshots \cup
             SessionClose({SnapshotOf(n, results[n]) :
                             n \in {m \in nodes : NodeRank(m) <= k}})
    /\ round_error' = TRUE
    /\ ppc' = "idle"
    /\ UNCHANGED <<remoteVars, workerVars, nodes, results, responses, clock,
                   summary, ws_clients, sent, cacheVars, reply, apiVars>>

\* the poll job with a relational store that may fail the write of a round
\* and a cache whose entries expire
NextCommit ==
    \/ NextPoll
    \/ collect_all_status_error
    \/ cache_expire

SpecCommit == InitPoll /\ [][NextCommit]_vars

\* C35: in a poll round snapshots enter the store only once every node query
\* of the round has resolved, and then one per active node in a single step
\* or none at all; the status cache is written only after that step, from
\* the store that holds the round's snapshots, so that every node entry of
\* a cached status is the content of a committed snapshot.
C35_CommitThenCache ==
    /\ [](cache.status # <<>> =>
            \A n \in DOMAIN cache.status[1].orchestrators :
               LET entry == cache.status[1].orchestrators[n]
               IN \E r \in snapshots :
                     /\ r.node_id = n
                     /\ r.timestamp = entry.last_checked
                     /\ r.is_online = entry.is_online
                     /\ r.state = entry.state)
    /\ [][/\ snapshots' # snapshots =>
               /\ ppc = "gather"
               /\ \A n \in nodes : results[n] # Pending
               /\ snapshots \subseteq snapshots'
               /\ Cardinality(snapshots' \ snapshots) = Cardinality(nodes)
               /\ \A n \in nodes :
                     \E r \in snapshots' \ snapshots :
                        r.node_id = n /\ r.timestamp = clock
          /\ (cache'.status # cache.status /\ cache'.status # <<>>) =>
               /\ ppc = "update_cache"
               /\ {r.node_id : r \in RoundRows(clock)} = nodes
               /\ snapshots' = snapshots
               /\ cache'.status = <<_build_current_status>>]_vars

C35_Witness ==
    /\ clock = 2
    /\ ppc = "broadcast"
    /\ cache.status # <<>>
    /\ Cardinality(nodes) = 2
    /\ Cardinality(snapshots) = 2
    /\ {r.node_id : r \in RoundRows(clock)} = nodes

(***************************************************************************)
(* The WebSocket registry and the broadcast that ends a poll round:        *)
(* src/services/websocket_service.py, src/api/v1/websocket.py and          *)
(* collect_orchestrator_data of src/tasks/data_collector.py.               *)
(***************************************************************************)
notWs == <<remoteVars, workerVars, serviceVars, schedVars, queryVars, sigVars,
           rateVars, tokenVars>>

Conns == 1..MaxConns

\* the user whose token a connection was opened with
UserOf(c) == (c + 1) \div 2

\* active_connections[user_id].add(websocket), creating the user's set
AddConnection(ac, u, c) ==
    [v \in DOMAIN ac \cup {u} |-> IF v \in DOMAIN ac THEN
                                      IF v = u THEN ac[v] \cup {c} ELSE ac[v]
                                   ELSE {c}]

\* connections.discard(websocket), deleting the user's set when it is empty
DiscardConnection(ac, u, c) ==
    IF u \notin DOMAIN ac THEN ac
    ELSE [v \in {w \in DOMAIN ac : w # u \/ ac[w] \ {c} # {}} |->
            IF v = u THEN ac[v] \ {c} ELSE ac[v]]

CleanupGlobalOnly(ac, D) == ac

\* the clean-up loop of broadcast_status over the user mapping
RECURSIVE Cleanup(_, _)
Cleanup(ac, D) ==
    IF D = {} THEN ac
    ELSE LET c == CHOOSE x \in D : TRUE
             owners == {u \in DOMAIN ac : c \in ac[u]}
         IN Cleanup(IF owners = {} THEN ac
                    ELSE DiscardConnection(ac, CHOOSE u \in owners : TRUE, c),
                    D \ {c})

\* broadcast_status is suspended in an await, or not running: the event loop
\* may run another coroutine
Suspended == bcast.pc # "next"

\* websocket_status accepts a client: manager.connect
ws_connect ==
    /\ Suspended
    /\ \E c \in Conns \ all_connections :
          /\ all_connections' = all_connections \cup {c}
          /\ active_connections' = AddConnection(active_connections, UserOf(c), c)
    /\ UNCHANGED <<bcast, received, stayed, notWs>>

\* a client goes away and websocket_status leaves through its finally:
\* manager.disconnect
ws_disconnect ==
    /\ Suspended
    /\ \E c \in all_connections :
          /\ all_connections' = all_connections \ {c}
          /\ active_connections' =
                DiscardConnection(active_connections, UserOf(c), c)
          /\ stayed' = stayed \ {c}
    /\ UNCHANGED <<bcast, received, notWs>>

\* collect_orchestrator_data after the round: connection_count > 0, then the
\* await of get_current_status
broadcast_wanted ==
    /\ bcast.pc = "idle"
    /\ Cardinality(all_connections) > 0
    /\ bcast' = [bcast EXCEPT !.pc = "status"]
    /\ UNCHANGED <<all_connections, active_connections, received, stayed, notWs>>

\* broadcast_status is entered: the iterator over all_connections is created
broadcast_status_begin ==
    /\ bcast.pc = "status"
    /\ bcast' = [pc |-> "next", used |-> Cardinality(all_connections),
                 visited |-> {}, cur |-> 0, disconnected |-> {}]
    /\ received' = {}
    /\ stayed' = all_connections
    /\ UNCHANGED <<all_connections, active_connections, notWs>>

\* the for loop asks the iterator for the next connection.  The iterator
\* raises RuntimeError when the set has changed size since it was created,
\* and the error leaves broadcast_status for the handler of
\* collect_orchestrator_data.  When elements were exchanged at equal size the
\* new ones are met or not.  At the end of the loop the clean-up runs without
\* an await.
broadcast_next ==
    /\ bcast.pc = "next"
    /\ IF Cardinality(all_connections) # bcast.used
       THEN /\ bcast' = NoBroadcast
            /\ UNCHANGED <<all_connections, active_connections>>
       ELSE \/ \E c \in all_connections \ bcast.visited :
                /\ bcast' = [bcast EXCEPT !.pc = "send", !.cur = c,
                                          !.visited = @ \cup {c}]
                /\ UNCHANGED <<all_connections, active_connections>>
            \/ /\ (stayed \ bcast.visited) = {}
               /\ all_connections' = all_connections \ bcast.disconnected
               /\ active_connections' =
                     Cleanup(active_connections, bcast.disconnected)
               /\ bcast' = NoBroadcast
    /\ UNCHANGED <<received, stayed, notWs>>

\* await connection.send_text(message) returns or raises
send_text ==
    /\ bcast.pc = "send"
    /\ \E ok \in BOOLEAN :
          IF ok
          THEN /\ received' = received \cup {bcast.cur}
               /\ bcast' = [bcast EXCEPT !.pc = "next", !.cur = 0]
          ELSE /\ bcast' = [bcast EXCEPT !.pc = "next", !.cur = 0,
                                         !.disconnected = @ \cup {bcast.cur}]
               /\ UNCHANGED received
    /\ UNCHANGED <<all_connections, active_connections, stayed, notWs>>

\* the registry changes only between broadcasts
Quiet == bcast.pc = "idle"

NextBroadcast ==
    \/ (Quiet /\ ws_connect)
    \/ (Quiet /\ ws_disconnect)
    \/ broadcast_wanted
    \/ broadcast_status_begin
    \/ broadcast_next
    \/ send_text

SpecBroadcast == InitQuery /\ [][NextBroadcast]_vars

\* clients connect and go away at any time
NextWs ==
    \/ ws_connect
    \/ ws_disconnect
    \/ broadcast_wanted
    \/ broadcast_status_begin
    \/ broadcast_next
    \/ send_text

SpecWs == InitQuery /\ [][NextWs]_vars

\* the step in which broadcast_status returns or raises
BroadcastEnds == bcast.pc = "next" /\ bcast'.pc = "idle"

C37_BroadcastSurvivesChurn ==
    [][/\ bcast.pc = "send" => all_connections' = all_connections
       /\ BroadcastEnds => stayed \subseteq received \cup bcast.disconnected]_vars

(***************************************************************************)
(* Shutdown of the worker process: src/workers/bridge_worker.py runs       *)
(* BridgeCollector.run under asyncio.run and installs no signal handler.   *)
(***************************************************************************)
\* a signal ends the process, or cancels the main task, at the await the
\* worker is suspended in; the session it holds is closed without a commit
shutdown_signal ==
    /\ pc \in {"start", "full_count", "full_page", "set_flag", "sleep",
               "incr_start", "incr_page", "pend_start", "pend_page"}
    /\ stopped_at' = pc
    /\ pc' = "exited"
    /\ kind' = "wrap"
    /\ exc' = "none"
    /\ txn' = FALSE
    /\ ResetLocals
    /\ ResetPass
    /\ UNCHANGED <<remoteVars, db, flag, histVars, harnessVars, serviceVars,
                   schedVars, queryVars, wsVars, rateVars, tokenVars>>

\* ticks of a synced worker against a fixed ledger, and a shutdown signal
NextShutdown ==
    \/ NextTick
    \/ shutdown_signal

SpecShutdown == InitSteady /\ [][NextShutdown]_vars

\* C38: once a shutdown signal has arrived the sync engine starts no new
\* tick, and the signal ends it only between ticks: a tick that is in
\* progress when the signal arrives runs to its end.
C38_GracefulShutdown ==
    /\ [](stopped_at \in {"none", "sleep"})
    /\ [][stopped_at # "none" => pc' = "exited" /\ db' = db]_vars

(***************************************************************************)
(* The rate limiter: src/core/rate_limiter.py, called for every request by *)
(* rate_limit_user of src/dependencies.py.  One user; time in ticks.       *)
(***************************************************************************)
notRate == <<remoteVars, workerVars, serviceVars, schedVars, queryVars, wsVars,
             sigVars, tokenVars>>

\* time.time() goes on
wall_tick ==
    /\ wall < MaxWall
    /\ wall' = wall + 1
    /\ UNCHANGED <<zset, calls, notRate>>

\* check_rate_limit up to its await: now = time.time() and the pipeline queued
check_rate_limit ==
    /\ Len(calls) < MaxCalls
    /\ calls' = Append(calls, [pc |-> "execute", now |-> wall])
    /\ UNCHANGED <<zset, wall, notRate>>

\* zremrangebyscore(key, 0, window_start): what it leaves in the sorted set
InWindow(entries, window_start) == {e \in entries : e.score > window_start}

\* if current_count >= burst_limit
Exceeded(current_count) == current_count >= BurstLimit

\* the key-value store executes the queued pipeline of one call as a
\* transaction (zremrangebyscore, zcard, zadd, expire) and the call returns
\* its headers or raises RateLimitExceededError.  The key's expiry of two
\* seconds is not reached within MaxWall ticks.
pipe_execute ==
    /\ \E i \in DOMAIN calls :
          /\ calls[i].pc = "execute"
          /\ LET window_start == calls[i].now - TicksPerSecond
                 kept == InWindow(zset, window_start)
                 current_count == Cardinality(kept)
             IN /\ zset' = kept \cup {[member |-> i, score |-> calls[i].now]}
                /\ calls' = [calls EXCEPT ![i].pc =
                                IF Exceeded(current_count) THEN "rejected"
                                ELSE "admitted"]
    /\ UNCHANGED <<wall, notRate>>

NextRate ==
    \/ wall_tick
    \/ check_rate_limit
    \/ pipe_execute

SpecRate == InitQuery /\ [][NextRate]_vars

\* the calls whose timestamp lies in the second that ends at s
Stamped(s, pcs) ==
    {i \in DOMAIN calls : /\ calls[i].pc \in pcs
                          /\ calls[i].now > s - TicksPerSecond
                          /\ calls[i].now <= s}

\* C39: whatever the order in which the store executes the calls, no second
\* holds the timestamps of more than BurstLimit admitted requests, and a call
\* is rejected exactly when BurstLimit or more requests, admitted or
\* rejected, are already recorded in the second that ends at its timestamp.
C39_BurstNeverExceeded ==
    /\ [](\A s \in 0..MaxWall : Cardinality(Stamped(s, {"admitted"})) <= BurstLimit)
    /\ [][\A i \in DOMAIN calls :
            (calls[i].pc = "execute" /\ calls'[i].pc # "execute") =>
               (calls'[i].pc = "rejected" <=>
                  Cardinality(Stamped(calls[i].now, {"admitted", "rejected"}))
                     >= BurstLimit)]_vars

(***************************************************************************)
(* API tokens: their validation in src/dependencies.py and their           *)
(* revocation in src/api/v1/auth.py and src/api/v1/users.py.  Tokens do    *)
(* not expire and their users stay active.                                 *)
(***************************************************************************)
notToken == <<remoteVars, workerVars, serviceVars, schedVars, queryVars, wsVars,
              sigVars, rateVars>>

\* POST /auth/tokens: a new row, not revoked
create_token ==
    /\ Len(api_tokens) < MaxTokens
    /\ api_tokens' = Append(api_tokens, [is_revoked |-> FALSE, last_used_at |-> 0,
                                         revoked_by |-> "none"])
    /\ UNCHANGED <<auth, notToken>>

\* token.is_revoked = True; await db.commit()
Revoke(row, who) ==
    [row EXCEPT !.is_revoked = TRUE,
                !.revoked_by = IF row.is_revoked THEN @ ELSE who]

\* DELETE /auth/tokens/{token_id} by the token's user
revoke_token ==
    /\ \E id \in DOMAIN api_tokens :
          api_tokens' = [api_tokens EXCEPT ![id] = Revoke(@, "user")]
    /\ UNCHANGED <<auth, notToken>>

\* DELETE /users/{user_id}/tokens/{token_id} by an admin
revoke_user_token ==
    /\ \E id \in DOMAIN api_tokens :
          api_tokens' = [api_tokens EXCEPT ![id] = Revoke(@, "admin")]
    /\ UNCHANGED <<auth, notToken>>

\* _validate_api_token up to its commit: the select with is_revoked == False
\* finds the row or not; no row raises AuthenticationError
validate_select ==
    /\ auth.pc = "idle"
    /\ \E id \in DOMAIN api_tokens :
          /\ api_tokens[id].last_used_at < MaxUses
          /\ auth' = IF api_tokens[id].is_revoked
                     THEN [pc |-> "idle", token |-> id, seen |-> <<>>,
                           result |-> "rejected"]
                     ELSE [pc |-> "commit", token |-> id,
                           seen |-> <<api_tokens[id]>>, result |-> "none"]
    /\ UNCHANGED <<api_tokens, notToken>>

TouchWholeRow(row, seen) == [seen EXCEPT !.last_used_at = seen.last_used_at + 1]

\* api_token.last_used_at = now; the commit updates the changed column of
\* the row
Touch(row, seen) == [row EXCEPT !.last_used_at = seen.last_used_at + 1]

\* the commit of _validate_api_token; the request is authenticated
validate_commit ==
    /\ auth.pc = "commit"
    /\ api_tokens' = [api_tokens EXCEPT
                        ![auth.token] = Touch(@, auth.seen[1])]
    /\ auth' = [auth EXCEPT !.pc = "idle", !.result = "ok"]
    /\ UNCHANGED notToken

NextToken ==
    \/ create_token
    \/ revoke_token
    \/ revoke_user_token
    \/ validate_select
    \/ validate_commit

SpecToken == InitQuery /\ [][NextToken]_vars

\* C40: a revoked token stays revoked whatever happens next, and a request
\* that presents a token whose revocation, by its user or by an admin, is
\* committed is rejected as unauthenticated.
C40_RevokedStaysRejected ==
    [][/\ \A id \in DOMAIN api_tokens :
            api_tokens[id].is_revoked =>
               /\ api_tokens'[id].is_revoked
               /\ api_tokens'[id].revoked_by = api_tokens[id].revoked_by
       /\ (auth.pc = "idle" /\ auth' # auth
             /\ api_tokens[auth'.token].is_revoked) =>
               /\ auth'.result = "rejected"
               /\ auth'.pc = "idle"
               /\ api_tokens' = api_tokens]_vars

C40_Witness ==
    /\ Len(api_tokens) = 2
    /\ auth.result = "rejected"
    /\ api_tokens[auth.token].revoked_by = "admin"
    /\ api_tokens[auth.token].last_used_at >= 1
    /\ \E id \in DOMAIN api_tokens : api_tokens[id].revoked_by = "user"
====
